---- MODULE Spec2Model ----
(***************************************************************************)
(* electron-drive: the renderer-side request correlator (ArcElectronDrive) *)
(* and the main-process Google Drive export service (DriveExport), with    *)
(* the IPC pipe between them and the Authorizer / HTTP transport as the    *)
(* environment.                                                            *)
(*                                                                         *)
(* One action is one macrotask of the JavaScript event loop together with  *)
(* every microtask (promise continuation) it triggers: a handler runs      *)
(* until each of its async functions waits on the Authorizer or on an      *)
(* HTTP exchange.                                                          *)
(***************************************************************************)
EXTENDS Naturals, Sequences, FiniteSets, TLC

VARIABLES
  _index,        \* ArcElectronDrive._index: last used request id
  _promises,     \* ArcElectronDrive._promises: id -> handle of the pending promise
  created,       \* history: number of promises handed out in e.detail.result
  issued,        \* history: request ids in the order they were issued
  settled,       \* history: promise handle -> sequence of settlements
  thrown,        \* history: number of exceptions escaping a renderer handler
  lastEvent,     \* history: the last ipc notification a renderer handler processed
  toMain,        \* ipc pipe renderer -> main (FIFO)
  toRenderer,    \* ipc pipe main -> renderer (FIFO)
  ops,           \* main process: one record per request received
  cachedFolders, \* DriveExport.cachedFolders
  sent           \* history: every message the main process sent, with its origin

rvars == <<_index, _promises, created, issued, settled, thrown, lastEvent>>
mvars == <<ops, cachedFolders, sent>>
vars == <<_index, _promises, created, issued, settled, thrown, lastEvent,
          toMain, toRenderer, ops, cachedFolders, sent>>

(***************************************************************************)
(* Bounds of the model.                                                    *)
(***************************************************************************)
\* dispatches of the renderer in the correlator-only specification
MaxDispatch == 3
\* requests served concurrently by the main process (Spec)
MaxOps == 2
\* requests served one after another with the full menu of Drive responses
\* (SpecDrive, SpecFair)
MaxDriveOps == 1
\* direct calls of createParents, one after another (SpecResolve)
MaxResolves == 2

(***************************************************************************)
(* JavaScript values.                                                      *)
(***************************************************************************)
Undefined == "<undefined>"

\* !s for a string-or-undefined value
Falsy(s) == s \in {Undefined, ""}

\* String.prototype.toLowerCase on the names the model uses
ToLowerCase(s) ==
  CASE s = "My Drive" -> "my drive"
    [] s = "MY DRIVE" -> "my drive"
    [] s = "Projects" -> "projects"
    [] s = "Docs" -> "docs"
    [] s = "A" -> "a"
    [] s = "B" -> "b"
    [] s = "C" -> "c"
    [] OTHER -> s

\* a parent reference as the caller may give it: a raw string, an object
\* with name and/or id, or null
PStr(s) == [k |-> "str", name |-> s, id |-> Undefined]
PObj(n, i) == [k |-> "obj", name |-> n, id |-> i]
PNull == [k |-> "null", name |-> Undefined, id |-> Undefined]

\* a request body: a string, a structured value (given by its JSON text), or
\* undefined
BStr(s) == [k |-> "str", v |-> s]
BObj(json) == [k |-> "obj", v |-> json]
BUndef == [k |-> "undef", v |-> Undefined]

\* error values: an Error object (instanceof Error), or any other thrown value
Err(name, message) == [err |-> name, message |-> message]
Raw(v) == [raw |-> v]
IsError(cause) == "err" \in DOMAIN cause

\* new Error(message): an undefined message gives an empty one
NewError(message) == Err("Error", IF message = Undefined THEN "" ELSE message)

\* Buffer.concat(chunks).toString()
RECURSIVE BufferConcat(_)
BufferConcat(chunks) ==
  IF chunks = <<>> THEN "" ELSE Head(chunks) \o BufferConcat(Tail(chunks))

\* JSON values are records; null is the record JNull, {} the empty record
JNull == [null |-> TRUE]
JEmpty == [f \in {} |-> TRUE]
IsNull(v) == "null" \in DOMAIN v
Has(v, f) == f \in DOMAIN v
Get(v, f) == IF f \in DOMAIN v THEN v[f] ELSE Undefined

\* JSON.parse on the response texts of the model; anything else is a SyntaxError
JSONParse(text) ==
  CASE text = "{\"id\":\"file1\"}" -> [ok |-> TRUE, value |-> [id |-> "file1"]]
    [] text = "{\"id\":\"file1\",\"parents\":[\"F0\"]}" ->
         [ok |-> TRUE, value |-> [id |-> "file1", parents |-> <<"F0">>]]
    [] text = "{\"id\":\"F1\"}" -> [ok |-> TRUE, value |-> [id |-> "F1"]]
    [] text = "{\"id\":\"F2\"}" -> [ok |-> TRUE, value |-> [id |-> "F2"]]
    [] text = "{}" -> [ok |-> TRUE, value |-> JEmpty]
    [] text = "null" -> [ok |-> TRUE, value |-> JNull]
    [] text = "{\"error\":{\"code\":403,\"message\":\"quota exceeded\"}}" ->
         [ok |-> TRUE,
          value |-> [error |-> [code |-> "403", message |-> "quota exceeded"]]]
    [] text = "{\"error\":{\"message\":\"File not found\"}}" ->
         [ok |-> TRUE, value |-> [error |-> [message |-> "File not found"]]]
    [] text = "{\"files\":[{\"id\":\"F9\",\"name\":\"Old\",\"kind\":\"drive#file\"}]}" ->
         [ok |-> TRUE,
          value |-> [files |-> <<[id |-> "F9", name |-> "Old", kind |-> "drive#file"]>>]]
    [] OTHER -> [ok |-> FALSE, value |-> JEmpty]

SyntaxError == Err("SyntaxError", "Unexpected token in JSON")

(***************************************************************************)
(* Renderer process: ArcElectronDrive (the operation-result version).      *)
(***************************************************************************)
\* lines 184-200: the parents the save event's options carry, as forwarded
RECURSIVE ForwardParents(_)
ForwardParents(items) ==
  IF items = <<>> THEN <<>>
  ELSE LET item == Head(items)
           rest == ForwardParents(Tail(items))
       IN  IF item.k = "null" \/ (item.k = "str" /\ item.name = "")
             THEN rest
           ELSE IF item.k = "str"
             THEN IF ToLowerCase(item.name) = "my drive"
                    THEN <<PObj(item.name, "root")>> \o rest
                    ELSE <<item>> \o rest
           ELSE IF item.name # Undefined
             THEN IF ToLowerCase(item.name) = "my drive"
                    THEN <<PObj(item.name, "root")>> \o rest
                    ELSE <<item>> \o rest
           ELSE rest

\* the configuration object of a google-drive-data-save message
SaveConfig(hasMeta, name, description, mimeType, parents, type, body, id, auth) ==
  [hasMeta |-> hasMeta, name |-> name, description |-> description,
   mimeType |-> mimeType, parents |-> parents, type |-> type, body |-> body,
   id |-> id, auth |-> auth]

NoAuth == [k |-> "none", accessToken |-> Undefined]
TokenAuth(t) == [k |-> "token", accessToken |-> t]
ConfigAuth == [k |-> "config", accessToken |-> Undefined]

\* ipc.send(channel, id, arg)
IpcSend(q, chan, id, arg) == Append(q, [chan |-> chan, id |-> id, arg |-> arg])

\* new Promise(...) handed to the caller in e.detail.result
NewPromise == created + 1

\* a dispatcher that sends the request and registers nothing
_addPromiseUnregistered(id, h) ==
  _promises' = _promises

\* this._promises[id] = {resolve, reject}
_addPromise(id, h) ==
  _promises' = (id :> h) @@ _promises

\* ++this._index
NextIndexSkipped == _index
NextIndex == _index + 1

\* window event google-drive-data-save with detail {content, file, options}
ArcElectronDrive_dataSaveHandler(detail) ==
  LET id == NextIndex
      parents == IF detail.hasParents THEN ForwardParents(detail.parents) ELSE <<>>
      meta_parents == [defined |-> parents # <<>>, items |-> parents]
  IN  /\ _index' = id
      /\ toMain' = IpcSend(toMain, "google-drive-data-save", id,
            SaveConfig(TRUE, detail.file, Undefined, Undefined, meta_parents,
                       detail.contentType, detail.content, Undefined, NoAuth))
      /\ _addPromise(id, NewPromise)
      /\ created' = NewPromise
      /\ issued' = Append(issued, id)
      /\ UNCHANGED <<settled, thrown>>

\* window event google-drive-list-app-folders
ArcElectronDrive_listAppFoldersHandler ==
  LET id == NextIndex
  IN  /\ _index' = id
      /\ toMain' = IpcSend(toMain, "google-drive-list-app-folders", id,
                           [interactive |-> "false"])
      /\ _addPromise(id, NewPromise)
      /\ created' = NewPromise
      /\ issued' = Append(issued, id)
      /\ UNCHANGED <<settled, thrown>>

\* promise.resolve(value) / promise.reject(value) of the promise with handle h
Settle(h, how, value) ==
  settled' = (h :> Append(IF h \in DOMAIN settled THEN settled[h] ELSE <<>>,
                          [how |-> how, value |-> value])) @@ settled

\* the handlers without their "if (!promise) return": reading resolve/reject of
\* undefined throws a TypeError
Unguarded_mainResultHandler(id, result) ==
  /\ _promises' = [k \in DOMAIN _promises \ {id} |-> _promises[k]]
  /\ IF id \in DOMAIN _promises
       THEN Settle(_promises[id], "resolved", result) /\ UNCHANGED thrown
       ELSE thrown' = thrown + 1 /\ UNCHANGED settled
  /\ UNCHANGED <<_index, created, issued>>

\* a handler that settles the promise and leaves it registered
Keeping_mainErrorHandler(id, cause) ==
  IF id \notin DOMAIN _promises
    THEN UNCHANGED <<_promises, settled, thrown, _index, created, issued>>
    ELSE /\ Settle(_promises[id], "rejected", cause)
         /\ UNCHANGED <<_promises, thrown, _index, created, issued>>

\* ipc event google-drive-operation-result (id, result)
ArcElectronDrive_mainResultHandler(id, result) ==
  IF id \notin DOMAIN _promises
    THEN UNCHANGED <<_promises, settled, thrown, _index, created, issued>>
    ELSE /\ _promises' = [k \in DOMAIN _promises \ {id} |-> _promises[k]]
         /\ Settle(_promises[id], "resolved", result)
         /\ UNCHANGED <<thrown, _index, created, issued>>

\* ipc event google-drive-operation-error (id, cause)
ArcElectronDrive_mainErrorHandler(id, cause) ==
  IF id \notin DOMAIN _promises
    THEN UNCHANGED <<_promises, settled, thrown, _index, created, issued>>
    ELSE /\ _promises' = [k \in DOMAIN _promises \ {id} |-> _promises[k]]
         /\ Settle(_promises[id], "rejected", cause)
         /\ UNCHANGED <<thrown, _index, created, issued>>


(***************************************************************************)
(* Main process: DriveExport.                                              *)
(***************************************************************************)
\* DriveExport.arcDefaults, and the instance new DriveExport(arcDefaults)
arcDefaults ==
  [mime |-> "application/restclient+data",
   fileDescription |-> "Advanced REST client data export file.",
   fileType |-> "application/json"]
\* new DriveExport(opts): the defaults the constructor keeps
DriveExport_new(opts) ==
  [mime |-> Get(opts, "opts"), fileDescription |-> Get(opts, "fileDescription"),
   fileType |-> Get(opts, "fileType")]
this_mime == Get(arcDefaults, "opts")
this_fileDescription == Get(arcDefaults, "fileDescription")
this_fileType == Get(arcDefaults, "fileType")

NoParents == [state |-> "absent", items |-> <<>>, ids |-> <<>>]
\* a resource object is the caller's config.meta (obj "meta") or an object
\* made here (obj "new"); NoResource is {}
NoResource ==
  [obj |-> "new", name |-> Undefined, description |-> Undefined,
   mimeType |-> Undefined, parents |-> NoParents]
NoMedia == [mimeType |-> Undefined, body |-> Undefined]

\* JSON.stringify of a request body value
JSONStringify(body) == IF body.k = "undef" THEN Undefined ELSE body.v

\* _createMedia(config): the media type and the body as a string
_createMedia(config) ==
  [mimeType |-> IF ~Falsy(config.type) THEN config.type ELSE this_fileType,
   body |-> IF config.body.k = "str" THEN config.body.v ELSE JSONStringify(config.body)]

\* a resource builder that sets the default description on every resource
_createResourceOnDescribed(this, config) ==
  LET meta == IF config.hasMeta
                THEN [obj |-> "meta", name |-> config.name,
                      description |-> config.description,
                      mimeType |-> config.mimeType,
                      parents |-> IF config.parents.defined
                                    THEN [state |-> "raw", items |-> config.parents.items,
                                          ids |-> <<>>]
                                    ELSE NoParents]
                ELSE NoResource
      t == IF Falsy(meta.mimeType)
             THEN (IF ~Falsy(config.type) THEN config.type ELSE this.fileType)
             ELSE meta.mimeType
  IN  [meta EXCEPT !.description = this.fileDescription, !.mimeType = t]

\* _createResource(config) on the instance this: config.meta, or {} when
\* there is none, with the defaults filled in; the object itself is returned
_createResourceOn(this, config) ==
  LET meta == IF config.hasMeta
                THEN [obj |-> "meta", name |-> config.name,
                      description |-> config.description,
                      mimeType |-> config.mimeType,
                      parents |-> IF config.parents.defined
                                    THEN [state |-> "raw", items |-> config.parents.items,
                                          ids |-> <<>>]
                                    ELSE NoParents]
                ELSE NoResource
      d == IF Falsy(meta.description) /\ ~Falsy(this.fileDescription)
             THEN this.fileDescription ELSE meta.description
      t == IF Falsy(meta.mimeType)
             THEN (IF ~Falsy(config.type) THEN config.type ELSE this.fileType)
             ELSE meta.mimeType
  IN  [meta EXCEPT !.description = d, !.mimeType = t]

\* _createResource(config) on the instance new DriveExport(arcDefaults)
_createResource(config) == _createResourceOn(DriveExport_new(arcDefaults), config)

\* the state of one request being served (the activation records of its
\* async functions) and the record of what it did
NewOp(kind, requestId) ==
  [kind |-> kind, requestId |-> requestId, pc |-> "start", call |-> "none",
   fileId |-> Undefined, auth |-> NoAuth, interactive |-> Undefined,
   info |-> NoAuth, token |-> Undefined, pinfo |-> NoAuth,
   resource |-> NoResource, media |-> NoMedia,
   todo |-> <<>>, result |-> <<>>, current |-> PNull,
   createdParents |-> [defined |-> FALSE, items |-> <<>>],
   url |-> Undefined,
   returned |-> [defined |-> FALSE, value |-> JEmpty],
   input |-> [defined |-> FALSE, items |-> <<>>],
   normalized |-> [defined |-> FALSE, items |-> <<>>],
   failed |-> [defined |-> FALSE, cause |-> Raw("")],
   log |-> <<>>, out |-> <<>>]

\* response.headers.location: absent, a string or an array of strings
NoLocation == [k |-> "none", v |-> <<>>]

\* entries of an operation's log: Authorizer calls, HTTP requests issued,
\* HTTP exchanges completed (status 0: the request's error event)
AuthEv(method, interactive) ==
  [e |-> "auth", kind |-> method, method |-> Undefined, url |-> Undefined,
   token |-> Undefined, ctype |-> Undefined, meta |-> NoResource, text |-> Undefined,
   interactive |-> interactive, status |-> 0, location |-> NoLocation,
   chunks |-> <<>>, arg |-> NoAuth]
\* Oauth2Identity.launchWebAuthFlow(arg)
AuthFlowEv(arg) == [AuthEv("launchWebAuthFlow", Undefined) EXCEPT !.arg = arg]
Req(kind, method, url, token, ctype, meta, text) ==
  [e |-> "req", kind |-> kind, method |-> method, url |-> url, token |-> token,
   ctype |-> ctype, meta |-> meta, text |-> text, interactive |-> Undefined,
   status |-> 0, location |-> NoLocation, chunks |-> <<>>, arg |-> NoAuth]
Res(kind, resp) ==
  [e |-> "res", kind |-> kind, method |-> Undefined, url |-> Undefined,
   token |-> Undefined, ctype |-> Undefined, meta |-> NoResource, text |-> Undefined,
   interactive |-> Undefined, status |-> resp.status, location |-> resp.location,
   chunks |-> resp.chunks, arg |-> NoAuth]

Log(st, ev) == [st EXCEPT !.o.log = Append(@, ev)]
Wait(st, pc) == [st EXCEPT !.o.pc = pc]

\* 'Bearer ' + token
Bearer(token) == "Bearer " \o (IF token = Undefined THEN "undefined" ELSE token)

TypeError(message) == Err("TypeError", message)

\* the request id a handler reports back with
LatestRequestId(o) == IF ops = <<>> THEN o.requestId ELSE ops[Len(ops)].requestId
ResponseId(o) == o.requestId

\* e.sender.send(channel, requestId, payload)
SenderSend(st, chan, payload) ==
  [st EXCEPT !.o.out = Append(@, [chan |-> chan, id |-> ResponseId(st.o),
                                  payload |-> payload])]

\* catch (cause) { ... } of the three handlers
HandlerCatch(st, cause) ==
  [SenderSend(st, "google-drive-operation-error",
              IF IsError(cause) THEN [message |-> cause.message] ELSE cause)
     EXCEPT !.o.pc = "done"]

\* a rejection travelling up the awaits: into the catch of the ipc handler
\* that started the operation, or to the caller of a method called directly
Reject(st, cause) ==
  IF st.o.kind = "api"
    THEN [st EXCEPT !.o.pc = "done", !.o.failed = [defined |-> TRUE, cause |-> cause]]
    ELSE HandlerCatch(st, cause)

\* a result send that falls through into the error send
HandlerResultThenError(st, value) ==
  HandlerCatch(SenderSend(st, "google-drive-operation-result", value),
               Err("Error", "failed"))

\* e.sender.send('google-drive-operation-result', requestId, result)
HandlerResult(st, value) ==
  [SenderSend(st, "google-drive-operation-result", value) EXCEPT !.o.pc = "done"]

\* an exception thrown by an event listener outside every promise: it is
\* uncaught and the promise the handler awaits is never settled
Uncaught(st) == [st EXCEPT !.o.pc = "uncaught"]

\* return of create / update: into _dataSaveHandler, or to the caller of the
\* method
SaveReturn(st, value) ==
  LET s1 == [st EXCEPT !.o.returned = [defined |-> TRUE, value |-> value]]
  IN  IF st.o.kind = "api" THEN [s1 EXCEPT !.o.pc = "done"] ELSE HandlerResult(s1, value)

\* the comparison with 'my drive' made without toLowerCase()
_normalizeParentsItemExact(item) ==
  IF item.k = "str"
    THEN IF item.name = "my drive"
           THEN <<PObj(Undefined, "root")>>
           ELSE <<PObj(item.name, Undefined)>>
    ELSE IF Falsy(item.name) /\ Falsy(item.id) THEN <<>> ELSE <<item>>

\* the body of the forEach callback: the entries item contributes
_normalizeParentsItem(item) ==
  IF item.k = "str"
    THEN IF ToLowerCase(item.name) = "my drive"
           THEN <<PObj(Undefined, "root")>>
           ELSE <<PObj(item.name, Undefined)>>
    ELSE IF Falsy(item.name) /\ Falsy(item.id) THEN <<>> ELSE <<item>>

\* forEach over the list; reading item.name of a null entry throws
RECURSIVE _normalizeParents(_)
_normalizeParents(parents) ==
  IF parents = <<>> THEN [threw |-> FALSE, items |-> <<>>]
  ELSE IF Head(parents).k = "null" THEN [threw |-> TRUE, items |-> <<>>]
  ELSE LET rest == _normalizeParents(Tail(parents))
       IN  [threw |-> rest.threw,
            items |-> _normalizeParentsItem(Head(parents)) \o rest.items]

UploadBase == "https://www.googleapis.com/upload/drive/v3/files"
FolderUrl == "https://content.googleapis.com/drive/v3/files?alt=json"
FolderMime == "application/vnd.google-apps.folder"
ListUrl == "https://www.googleapis.com/drive/v3/files?q=trashed%20%3D%20false%20and%20mimeType%3D%22application%2Fvnd.google-apps.folder%22&orderBy=modifiedTime%20desc&"
DownloadUrl(id) == "https://www.googleapis.com/drive/v3/files/" \o id \o "?alt=media"
InitPrefix == "Could not initialize Drive upload session. Reason: "
InitNoLocation == "Could not initialize Drive upload session."

_upload(st, url) ==
  Wait(Log([st EXCEPT !.o.url = url],
           Req("put", "PUT", url, Bearer(st.o.token), st.o.media.mimeType,
               NoResource, st.o.media.body)),
       "put")

_initializeSession(st, fileId) ==
  LET patch == ~Falsy(fileId)
      url == IF patch THEN UploadBase \o "/" \o fileId \o "?uploadType=resumable"
                      ELSE UploadBase \o "?uploadType=resumable"
  IN  Wait(Log(st, Req("init", IF patch THEN "PATCH" ELSE "POST", url,
                       Bearer(st.o.token), "application/json; charset=UTF-8",
                       st.o.resource, Undefined)),
           "init")

\* a create that sends the resource with the parents as the caller gave them
CreateAfterParentsRaw(st, resolved) ==
  _initializeSession([st EXCEPT !.o.createdParents =
                                   [defined |-> TRUE, items |-> resolved]],
                     Undefined)

\* create, from the return of createParents on
CreateAfterParents(st, resolved) ==
  LET ids == [i \in 1 .. Len(resolved) |-> resolved[i].id]
      s1 == [st EXCEPT !.o.createdParents = [defined |-> TRUE, items |-> resolved],
                       !.o.resource.parents =
                          IF resolved = <<>> THEN NoParents
                          ELSE [state |-> "ids", items |-> <<>>, ids |-> ids]]
  IN  _initializeSession(s1, Undefined)

\* return of createParents: into create, or to the caller of the method
ParentsReturn(st, resolved) ==
  IF st.o.kind = "api"
    THEN [st EXCEPT !.o.pc = "done",
                    !.o.returned = [defined |-> TRUE, value |-> [parents |-> resolved]]]
    ELSE CreateAfterParents(st, resolved)

RECURSIVE DriveExport_auth(_, _, _), AuthResolved(_, _, _), _createParents(_)

\* auth(auth) that asks the Authorizer even when given an access token
DriveExport_authAlways(st, arg, pc) ==
  Wait(Log(st, IF arg.k # "none" THEN AuthFlowEv(arg)
                                 ELSE AuthEv("getAuthToken", "true")),
       pc)

\* auth(auth): the token info at once when auth carries an access token,
\* else a call of the Authorizer
DriveExport_auth(st, arg, pc) ==
  IF arg.k # "none" /\ ~Falsy(arg.accessToken)
    THEN AuthResolved(st, pc, arg)
    ELSE Wait(Log(st, IF arg.k # "none" THEN AuthFlowEv(arg)
                                        ELSE AuthEv("getAuthToken", "true")),
              pc)

\* createParents without its first test: nothing to resolve gives []
createParentsUnguarded(st, parents, auth) ==
  LET s0 == [st EXCEPT !.o.input = parents]
      n == _normalizeParents(parents.items)
      s1 == [s0 EXCEPT !.o.normalized = [defined |-> TRUE, items |-> n.items]]
  IN  IF n.threw
        THEN Reject(s0, TypeError("Cannot read property 'name' of null"))
      ELSE IF n.items = <<>> THEN ParentsReturn(s1, <<>>)
      ELSE DriveExport_auth([s1 EXCEPT !.o.todo = n.items, !.o.result = <<>>],
                            auth, "parentsAuth")

\* parents: the argument, undefined or a list
createParents(st, parents, auth) ==
  LET s0 == [st EXCEPT !.o.input = parents]
  IN  IF ~parents.defined \/ parents.items = <<>>
        THEN Reject(s0, NewError("The parents argument not set."))
        ELSE LET n == _normalizeParents(parents.items)
                 s1 == [s0 EXCEPT !.o.normalized = [defined |-> TRUE, items |-> n.items]]
             IN  IF n.threw
                   THEN Reject(s0, TypeError("Cannot read property 'name' of null"))
                 ELSE IF n.items = <<>> THEN ParentsReturn(s1, <<>>)
                 ELSE DriveExport_auth([s1 EXCEPT !.o.todo = n.items, !.o.result = <<>>],
                                       auth, "parentsAuth")

\* a resolver that takes the entries from the end of the list (pop)
_createParentsPop(st) ==
  IF st.o.todo = <<>> THEN ParentsReturn(st, st.o.result)
  ELSE LET parent == st.o.todo[Len(st.o.todo)]
           s1 == [st EXCEPT !.o.todo = SubSeq(@, 1, Len(@) - 1)]
       IN  IF ~Falsy(parent.id)
             THEN _createParents([s1 EXCEPT !.o.result = Append(@, parent)])
             ELSE DriveExport_auth([s1 EXCEPT !.o.current = parent], st.o.pinfo,
                                   "folderAuth")

\* a resolver that creates a folder for every entry that has a name
_createParentsByName(st) ==
  IF st.o.todo = <<>> THEN ParentsReturn(st, st.o.result)
  ELSE LET parent == Head(st.o.todo)
           s1 == [st EXCEPT !.o.todo = Tail(@)]
       IN  IF Falsy(parent.name)
             THEN _createParents([s1 EXCEPT !.o.result = Append(@, parent)])
             ELSE DriveExport_auth([s1 EXCEPT !.o.current = parent], st.o.pinfo,
                                   "folderAuth")

\* a resolver that looks a name up in cachedFolders before creating a folder
_createParentsCached(st) ==
  IF st.o.todo = <<>> THEN ParentsReturn(st, st.o.result)
  ELSE LET parent == Head(st.o.todo)
           s1 == [st EXCEPT !.o.todo = Tail(@)]
           known == { k \in 1 .. Len(st.cf.items) : st.cf.items[k].name = parent.name }
       IN  IF ~Falsy(parent.id)
             THEN _createParents([s1 EXCEPT !.o.result = Append(@, parent)])
           ELSE IF known # {}
             THEN _createParents([s1 EXCEPT !.o.result =
                                    Append(@, st.cf.items[CHOOSE k \in known : TRUE])])
             ELSE DriveExport_auth([s1 EXCEPT !.o.current = parent], st.o.pinfo,
                                   "folderAuth")

\* _createParents(parents, auth, result): entries with an id are taken as
\* they are, for the first one without an id a folder is created
_createParents(st) ==
  IF st.o.todo = <<>> THEN ParentsReturn(st, st.o.result)
  ELSE LET parent == Head(st.o.todo)
           s1 == [st EXCEPT !.o.todo = Tail(@)]
       IN  IF ~Falsy(parent.id)
             THEN _createParents([s1 EXCEPT !.o.result = Append(@, parent)])
             ELSE DriveExport_auth([s1 EXCEPT !.o.current = parent], st.o.pinfo,
                                   "folderAuth")

\* createFolder after its auth: _createFolder(name, token)
createFolder(st, info) ==
  IF info.k = "none"
    THEN Reject(st, TypeError("Cannot read property 'accessToken' of undefined"))
    ELSE Wait(Log(st, Req("folder", "POST", FolderUrl, Bearer(info.accessToken),
                          "application/json", NoResource,
                          "{\"name\":\"" \o st.o.current.name \o "\",\"mimeType\":\""
                            \o FolderMime \o "\"}")),
              "folder")

\* create after "await this.auth(auth)"
DriveExport_create(st, info) ==
  IF info.k = "none"
    THEN Reject(st, TypeError("Cannot read property 'accessToken' of undefined"))
    ELSE LET s1 == [st EXCEPT !.o.info = info, !.o.token = info.accessToken]
             ps == st.o.resource.parents
         IN  IF ps.state = "raw" /\ Len(ps.items) > 0
               THEN createParents(s1, [defined |-> TRUE, items |-> ps.items], info)
               ELSE _initializeSession(s1, Undefined)

\* an update that resolves the resource's parents as create does
DriveExport_updateWithParents(st, info) == DriveExport_create(st, info)

\* update after "await this.auth(auth)"
DriveExport_update(st, info) ==
  IF info.k = "none"
    THEN Reject(st, TypeError("Cannot read property 'accessToken' of undefined"))
    ELSE _initializeSession([st EXCEPT !.o.info = info, !.o.token = info.accessToken],
                            st.o.fileId)

\* listAppFolders after getAuthToken: "if (auth) return this._listAppFolders(auth)"
listAppFolders(st, info) ==
  IF info.k = "none"
    THEN HandlerCatch(st, TypeError("Cannot read property 'files' of undefined"))
    ELSE Wait(Log(st, Req("list", "GET", ListUrl, Bearer(info.accessToken),
                          Undefined, NoResource, Undefined)),
              "list")

\* getFile after auth(): _downloadFile(auth, id)
_downloadFile(st, info) ==
  IF info.k = "none"
    THEN HandlerCatch(st, TypeError("Cannot read property 'accessToken' of undefined"))
    ELSE Wait(Log(st, Req("get", "GET", DownloadUrl(st.o.fileId),
                          Bearer(info.accessToken), Undefined, NoResource, Undefined)),
              "get")

\* the continuation of an "await this.auth(...)" / getAuthToken that resolved
AuthResolved(st, pc, info) ==
  CASE pc = "auth" ->
         IF st.o.call = "create" THEN DriveExport_create(st, info)
                                 ELSE DriveExport_update(st, info)
    [] pc = "parentsAuth" -> _createParents([st EXCEPT !.o.pinfo = info])
    [] pc = "folderAuth" -> createFolder(st, info)
    [] pc = "listAuth" -> listAppFolders(st, info)
    [] pc = "getAuth" -> _downloadFile(st, info)

\* result instanceof Array ? result[0] : result
SessionUrlLast(location) == location.v[Len(location.v)]
SessionUrl(location) == location.v[1]

\* the response listener without the "return" that ends its status >= 400
\* branch: a Location header then resolves the promise first
InitializeSessionResponseFallThrough(st, resp) ==
  IF resp.type = "error" THEN HandlerCatch(st, Err("Error", resp.message))
  ELSE IF resp.location.k = "none" \/ resp.location.v[1] = ""
    THEN IF resp.status >= 400
           THEN HandlerCatch(st, NewError(InitPrefix \o BufferConcat(resp.chunks)))
           ELSE HandlerCatch(st, NewError(InitNoLocation))
  ELSE _upload(st, SessionUrl(resp.location))

\* the 'end' listener folding only the first chunk into the message
InitializeSessionResponseFirstChunk(st, resp) ==
  IF resp.type = "error" THEN HandlerCatch(st, Err("Error", resp.message))
  ELSE IF resp.status >= 400
    THEN HandlerCatch(st, NewError(InitPrefix \o (IF resp.chunks = <<>> THEN ""
                                                  ELSE Head(resp.chunks))))
  ELSE IF resp.location.k = "none" \/ resp.location.v[1] = ""
    THEN HandlerCatch(st, NewError(InitNoLocation))
  ELSE _upload(st, SessionUrl(resp.location))

\* the response listeners of _initializeSession
InitializeSessionResponse(st, resp) ==
  IF resp.type = "error" THEN Reject(st, Err("Error", resp.message))
  ELSE IF resp.status >= 400
    THEN Reject(st, NewError(InitPrefix \o BufferConcat(resp.chunks)))
  ELSE IF resp.location.k = "none" \/ resp.location.v[1] = ""
    THEN Reject(st, NewError(InitNoLocation))
  ELSE _upload(st, SessionUrl(resp.location))

\* an upload that is tried a second time after a transport error
UploadResponseRetry(st, resp) ==
  IF resp.type = "error"
    THEN IF Cardinality({ k \in 1 .. Len(st.o.log) :
                            st.o.log[k].e = "req" /\ st.o.log[k].kind = "put" }) < 2
           THEN _upload(st, st.o.url)
           ELSE HandlerCatch(st, Err("Error", resp.message))
  ELSE LET p == JSONParse(BufferConcat(resp.chunks))
       IN  IF ~p.ok THEN HandlerCatch(st, SyntaxError)
           ELSE IF st.o.call = "create" /\ st.o.createdParents.defined
             THEN IF IsNull(p.value)
                    THEN HandlerCatch(st, TypeError("Cannot set property 'parents' of null"))
                    ELSE SaveReturn(st, [f \in DOMAIN p.value \cup {"parents"} |->
                                           IF f = "parents"
                                             THEN st.o.createdParents.items
                                             ELSE p.value[f]])
             ELSE SaveReturn(st, p.value)

\* an end of create that returns Drive's response as it is
UploadResponseVerbatim(st, resp) ==
  IF resp.type = "error" THEN HandlerCatch(st, Err("Error", resp.message))
  ELSE LET p == JSONParse(BufferConcat(resp.chunks))
       IN  IF ~p.ok THEN HandlerCatch(st, SyntaxError)
           ELSE SaveReturn(st, p.value)

\* the response listeners of _upload, and the end of create / update
UploadResponse(st, resp) ==
  IF resp.type = "error" THEN Reject(st, Err("Error", resp.message))
  ELSE LET p == JSONParse(BufferConcat(resp.chunks))
       IN  IF ~p.ok THEN Reject(st, SyntaxError)
           ELSE IF st.o.call = "create" /\ st.o.createdParents.defined
             THEN IF IsNull(p.value)
                    THEN Reject(st, TypeError("Cannot set property 'parents' of null"))
                    ELSE SaveReturn(st, [f \in DOMAIN p.value \cup {"parents"} |->
                                           IF f = "parents"
                                             THEN st.o.createdParents.items
                                             ELSE p.value[f]])
             ELSE SaveReturn(st, p.value)

\* a resolver that skips a folder it could not create and goes on
CreateFolderResponseLenient(st, resp) ==
  LET p == JSONParse(BufferConcat(resp.chunks))
  IN  IF resp.type = "error" \/ ~p.ok THEN _createParents(st)
      ELSE IF IsNull(p.value) THEN Uncaught(st)
      ELSE IF Has(p.value, "error") THEN _createParents(st)
      ELSE LET parent == [st.o.current EXCEPT !.id = Get(p.value, "id")]
           IN  _createParents(
                 [st EXCEPT !.o.result = Append(@, parent),
                            !.cf = [defined |-> TRUE, items |-> Append(@.items, parent)]])

\* a resolver that leaves the created folder out of cachedFolders
CreateFolderResponseUncached(st, resp) ==
  IF resp.type = "error" THEN Reject(st, Err("Error", resp.message))
  ELSE LET p == JSONParse(BufferConcat(resp.chunks))
       IN  IF ~p.ok THEN Reject(st, SyntaxError)
           ELSE IF IsNull(p.value) THEN Uncaught(st)
           ELSE IF Has(p.value, "error")
             THEN Reject(st, NewError(Get(p.value, "message")))
           ELSE LET parent == [st.o.current EXCEPT !.id = Get(p.value, "id")]
                IN  _createParents([st EXCEPT !.o.result = Append(@, parent)])

\* the response listeners of _createFolder, and _createParents after it
CreateFolderResponse(st, resp) ==
  IF resp.type = "error" THEN Reject(st, Err("Error", resp.message))
  ELSE LET p == JSONParse(BufferConcat(resp.chunks))
       IN  IF ~p.ok THEN Reject(st, SyntaxError)
           ELSE IF IsNull(p.value) THEN Uncaught(st)
           ELSE IF Has(p.value, "error")
             THEN Reject(st, NewError(Get(p.value, "message")))
           ELSE LET parent == [st.o.current EXCEPT !.id = Get(p.value, "id")]
                IN  _createParents(
                      [st EXCEPT !.o.result = Append(@, parent),
                                 !.cf = [defined |-> TRUE, items |-> Append(@.items, parent)]])

\* the response listeners of _listAppFolders, and _listAppFoldersHandler after it
ListAppFoldersResponse(st, resp) ==
  IF resp.type = "error" THEN HandlerCatch(st, Err("Error", resp.message))
  ELSE LET p == JSONParse(BufferConcat(resp.chunks))
       IN  IF ~p.ok THEN HandlerCatch(st, SyntaxError)
           ELSE IF IsNull(p.value) THEN Uncaught(st)
           ELSE IF Has(p.value, "error")
             THEN HandlerCatch(st, NewError(Get(p.value, "message")))
           ELSE LET files == IF Has(p.value, "files") THEN p.value.files ELSE <<>>
                    folders == [i \in 1 .. Len(files) |->
                                  PObj(files[i].name, files[i].id)]
                IN  HandlerResult([st EXCEPT !.cf = [defined |-> TRUE, items |-> folders]],
                                  [folders |-> folders])

\* response listeners that resolve with the body whatever the status is
DownloadFileResponseAnyStatus(st, resp) ==
  IF resp.type = "error" THEN HandlerCatch(st, Err("Error", resp.message))
  ELSE HandlerResult(st, [text |-> BufferConcat(resp.chunks)])

\* the response listeners of _downloadFile
DownloadFileResponse(st, resp) ==
  IF resp.type = "error" THEN HandlerCatch(st, Err("Error", resp.message))
  ELSE LET body == BufferConcat(resp.chunks)
           p == JSONParse(body)
           tmp == IF Has(p.value, "error") THEN p.value.error ELSE p.value
           text == IF p.ok /\ ~IsNull(p.value) /\ ~Falsy(Get(tmp, "message"))
                     THEN (IF ~Falsy(Get(tmp, "code")) THEN tmp.code \o ": " ELSE "")
                            \o tmp.message
                     ELSE body
       IN  IF resp.status >= 400 THEN HandlerCatch(st, NewError(text))
           ELSE HandlerResult(st, [text |-> body])

\* the first statement of create and of update: a resource without mimeType
\* gets this.mime, if the instance has one
DefaultMime(resource) ==
  [resource EXCEPT !.mimeType = IF Falsy(@) /\ ~Falsy(this_mime) THEN this_mime ELSE @]

\* a handler that takes every defined id, the empty string too, as a file id
DataSaveHandlerIdDefined(st, requestId, config) ==
  LET s1 == [st EXCEPT !.o.auth = config.auth, !.o.fileId = config.id,
                       !.o.resource = DefaultMime(_createResource(config)),
                       !.o.media = _createMedia(config),
                       !.o.call = IF config.id # Undefined THEN "update" ELSE "create"]
  IN  DriveExport_auth(s1, config.auth, "auth")

\* ipcMain event google-drive-data-save (requestId, config)
DriveExport_dataSaveHandler(st, requestId, config) ==
  LET s1 == [st EXCEPT !.o.auth = config.auth, !.o.fileId = config.id,
                       !.o.resource = DefaultMime(_createResource(config)),
                       !.o.media = _createMedia(config),
                       !.o.call = IF ~Falsy(config.id) THEN "update" ELSE "create"]
  IN  DriveExport_auth(s1, config.auth, "auth")

\* a handler that asks Drive every time, without looking at cachedFolders
ListAppFoldersHandlerUncached(st, requestId, opts) ==
  LET interactive == IF opts.interactive = Undefined THEN "true"
                     ELSE opts.interactive
  IN  Wait(Log([st EXCEPT !.o.interactive = interactive],
               AuthEv("getAuthToken", interactive)),
           "listAuth")

\* ipcMain event google-drive-list-app-folders (requestId, opts)
DriveExport_listAppFoldersHandler(st, requestId, opts) ==
  IF st.cf.defined
    THEN HandlerResult(st, [folders |-> st.cf.items])
    ELSE LET interactive == IF opts.interactive = Undefined THEN "true"
                            ELSE opts.interactive
         IN  Wait(Log([st EXCEPT !.o.interactive = interactive],
                      AuthEv("getAuthToken", interactive)),
                  "listAuth")

\* ipcMain event google-drive-get-file (requestId, id)
DriveExport_getFileHandler(st, requestId, id) ==
  DriveExport_auth([st EXCEPT !.o.fileId = id], NoAuth, "getAuth")

(***************************************************************************)
(* The correlator on its own: the page dispatches, and the ipc channel     *)
(* emits operation-result / operation-error notifications with any id.     *)
(***************************************************************************)
NoEvent == [handler |-> "none", id |-> 0, value |-> JEmpty, known |-> FALSE]

\* details of the google-drive-data-save events the page dispatches
SaveDetails ==
  { [file |-> "a.json", content |-> BStr("data"), contentType |-> Undefined,
     hasParents |-> FALSE, parents |-> <<>>],
    [file |-> "b.json", content |-> BObj("{\"a\":1}"), contentType |-> "text/plain",
     hasParents |-> TRUE, parents |-> <<PStr("My Drive"), PStr("Projects")>>] }

NotifiedIds == 0 .. (MaxDispatch + 1)
NotifiedResults == { [id |-> "file1"], [folders |-> <<>>] }
NotifiedCauses == { [message |-> "failed"] }

RendererInit ==
  /\ _index = 0
  /\ _promises = <<>>
  /\ created = 0
  /\ issued = <<>>
  /\ settled = <<>>
  /\ thrown = 0
  /\ lastEvent = NoEvent

MainInit ==
  /\ toMain = <<>>
  /\ toRenderer = <<>>
  /\ ops = <<>>
  /\ cachedFolders = [defined |-> FALSE, items |-> <<>>]
  /\ sent = {}

Init == RendererInit /\ MainInit

\* requests dispatched so far
Requests == Len(toMain) + Len(ops)

PageSave(n) ==
  /\ Requests < n
  /\ \E d \in SaveDetails : ArcElectronDrive_dataSaveHandler(d)
  /\ UNCHANGED <<lastEvent, toRenderer, ops, cachedFolders, sent>>

PageList(n) ==
  /\ Requests < n
  /\ ArcElectronDrive_listAppFoldersHandler
  /\ UNCHANGED <<lastEvent, toRenderer, ops, cachedFolders, sent>>

NotifyResult ==
  \E id \in NotifiedIds, r \in NotifiedResults :
    /\ ArcElectronDrive_mainResultHandler(id, r)
    /\ lastEvent' = [handler |-> "result", id |-> id, value |-> r,
                     known |-> id \in DOMAIN _promises]
    /\ UNCHANGED <<toMain, toRenderer, ops, cachedFolders, sent>>

NotifyError ==
  \E id \in NotifiedIds, c \in NotifiedCauses :
    /\ ArcElectronDrive_mainErrorHandler(id, c)
    /\ lastEvent' = [handler |-> "error", id |-> id, value |-> c,
                     known |-> id \in DOMAIN _promises]
    /\ UNCHANGED <<toMain, toRenderer, ops, cachedFolders, sent>>

NextCorrelator ==
  PageSave(MaxDispatch) \/ PageList(MaxDispatch) \/ NotifyResult \/ NotifyError

SpecCorrelator == Init /\ [][NextCorrelator]_vars


(***************************************************************************)
(* The whole system: page and application code send requests, the main     *)
(* process serves them, the Authorizer and Drive answer, and the results   *)
(* travel back to the renderer's correlator.                               *)
(***************************************************************************)
NetError == [type |-> "error", status |-> 0, location |-> NoLocation,
             chunks |-> <<>>, message |-> "net::ERR_CONNECTION_RESET"]
Response(status, location, chunks) ==
  [type |-> "response", status |-> status, location |-> location,
   chunks |-> chunks, message |-> Undefined]

ErrorJson == "{\"error\":{\"code\":403,\"message\":\"quota exceeded\"}}"
NotFoundJson == "{\"error\":{\"message\":\"File not found\"}}"
FilesJson == "{\"files\":[{\"id\":\"F9\",\"name\":\"Old\",\"kind\":\"drive#file\"}]}"

\* what Drive (or anything between it and the application) may answer to a
\* request of the given kind; rich adds the rarer answers
NetResponses(pc, rich) ==
  CASE pc = "init" ->
         { NetError,
           Response(403, NoLocation, <<"quota ", "exceeded">>),
           Response(200, [k |-> "string", v |-> <<"https://upload/session1">>], <<>>) }
         \cup (IF rich
                 THEN { Response(200, NoLocation, <<>>),
                        Response(200, [k |-> "string", v |-> <<"">>], <<>>),
                        Response(200, [k |-> "array",
                                       v |-> <<"https://upload/session1",
                                               "https://upload/session2">>], <<>>),
                        Response(403, [k |-> "string", v |-> <<"https://upload/session1">>],
                                 <<"quota exceeded">>) }
                 ELSE {})
    [] pc = "put" ->
         { NetError,
           Response(200, NoLocation, <<"{\"id\":\"file1\"}">>) }
         \cup (IF rich
                 THEN { Response(200, NoLocation, <<"{\"id\":\"file1\",", "\"parents\":[\"F0\"]}">>),
                        Response(200, NoLocation, <<"<html>">>),
                        Response(200, NoLocation, <<"null">>),
                        Response(403, NoLocation, <<ErrorJson>>) }
                 ELSE {})
    [] pc = "folder" ->
         { NetError,
           Response(200, NoLocation, <<"{\"id\":\"F1\"}">>) }
         \cup (IF rich
                 THEN { Response(200, NoLocation, <<"{\"id\":\"F2\"}">>),
                        Response(200, NoLocation, <<"{}">>),
                        Response(200, NoLocation, <<"null">>),
                        Response(403, NoLocation, <<ErrorJson>>) }
                 ELSE {})
    [] pc = "list" ->
         { NetError,
           Response(200, NoLocation, <<FilesJson>>) }
         \cup (IF rich
                 THEN { Response(200, NoLocation, <<"{}">>),
                        Response(200, NoLocation, <<"null">>),
                        Response(403, NoLocation, <<ErrorJson>>) }
                 ELSE {})
    [] pc = "get" ->
         { NetError,
           Response(200, NoLocation, <<"file ", "content">>) }
         \cup (IF rich
                 THEN { Response(403, NoLocation, <<ErrorJson>>),
                        Response(500, NoLocation, <<"<html>">>),
                        Response(404, NoLocation, <<"null">>),
                        Response(404, NoLocation, <<NotFoundJson>>) }
                 ELSE {})

\* what the Authorizer may answer
AuthorizerOutcomes(rich) ==
  { [ok |-> TRUE, info |-> TokenAuth("token1"), cause |-> Raw("")],
    [ok |-> FALSE, info |-> NoAuth, cause |-> Err("Error", "User canceled")] }
  \cup (IF rich
          THEN { [ok |-> TRUE, info |-> NoAuth, cause |-> Raw("")],
                 [ok |-> TRUE, info |-> ConfigAuth, cause |-> Raw("")],
                 [ok |-> FALSE, info |-> NoAuth, cause |-> Raw("access_denied")] }
          ELSE {})

\* requests application code sends on the ipc channels itself
AppRequests(rich) ==
  { [chan |-> "google-drive-data-save",
     arg |-> SaveConfig(TRUE, "c.json", "My test file", Undefined,
                        [defined |-> TRUE, items |-> <<PStr("Docs")>>],
                        "application/json", BObj("{\"a\":1}"), "file1",
                        TokenAuth("token0"))],
    [chan |-> "google-drive-get-file", arg |-> "file1"],
    [chan |-> "google-drive-list-app-folders", arg |-> [interactive |-> "true"]] }
  \cup (IF rich
          THEN { [chan |-> "google-drive-data-save",
                  arg |-> SaveConfig(TRUE, "d.json", Undefined, Undefined,
                                     [defined |-> TRUE,
                                      items |-> <<PStr("A"), PObj("B", "F7"), PStr("C")>>],
                                     Undefined, BStr("data"), "", TokenAuth("token0"))],
                 [chan |-> "google-drive-data-save",
                  arg |-> SaveConfig(FALSE, Undefined, Undefined, Undefined,
                                     [defined |-> FALSE, items |-> <<>>],
                                     Undefined, BStr("data"), Undefined, ConfigAuth)],
                 [chan |-> "google-drive-list-app-folders",
                  arg |-> [interactive |-> Undefined]] }
          ELSE {})

\* application code numbers its requests itself; its ids are drawn from the
\* negative integers, apart from the ids of the page's correlator
AppIds(q) == { q[i].id : i \in { j \in 1 .. Len(q) : q[j].id < 0 } }
AppSent ==
  Cardinality(AppIds(toMain) \cup { ops[i].requestId :
                                     i \in { j \in 1 .. Len(ops) : ops[j].requestId < 0 } })

\* ipcRenderer.send(channel, requestId, ...) by application code (README)
AppSend(n, rich) ==
  /\ Requests < n
  /\ \E r \in AppRequests(rich) :
       toMain' = IpcSend(toMain, r.chan, 0 - (AppSent + 1), r.arg)
  /\ UNCHANGED <<rvars, toRenderer, ops, cachedFolders, sent>>

\* the effect of one step of the main process on operation i
MainStep(i, st) ==
  LET old == IF i <= Len(ops) THEN Len(ops[i].out) ELSE 0
      new == SubSeq(st.o.out, old + 1, Len(st.o.out))
  IN  /\ ops' = IF i <= Len(ops) THEN [ops EXCEPT ![i] = st.o] ELSE Append(ops, st.o)
      /\ cachedFolders' = st.cf
      /\ toRenderer' = toRenderer \o new
      /\ sent' = sent \cup { [from |-> i, n |-> k, msg |-> st.o.out[k]] :
                             k \in (old + 1) .. Len(st.o.out) }

\* ipcMain.on(...): the next request arrives and its handler runs
IpcMainOn ==
  /\ toMain # <<>>
  /\ LET m == Head(toMain)
         st0(kind) == [o |-> NewOp(kind, m.id), cf |-> cachedFolders]
     IN  MainStep(Len(ops) + 1,
           CASE m.chan = "google-drive-data-save" ->
                  DriveExport_dataSaveHandler(st0("save"), m.id, m.arg)
             [] m.chan = "google-drive-list-app-folders" ->
                  DriveExport_listAppFoldersHandler(st0("list"), m.id, m.arg)
             [] m.chan = "google-drive-get-file" ->
                  DriveExport_getFileHandler(st0("get"), m.id, m.arg))
  /\ toMain' = Tail(toMain)
  /\ UNCHANGED rvars

AuthPcs == {"auth", "parentsAuth", "folderAuth", "listAuth", "getAuth"}
NetPcs == {"init", "put", "folder", "list", "get"}

\* the Authorizer settles the promise an operation awaits
AuthorizerSettles(rich) ==
  \E i \in 1 .. Len(ops) :
    /\ ops[i].pc \in AuthPcs
    /\ \E r \in AuthorizerOutcomes(rich) :
         LET st == [o |-> ops[i], cf |-> cachedFolders]
         IN  MainStep(i, IF r.ok THEN AuthResolved(st, ops[i].pc, r.info)
                                 ELSE Reject(st, r.cause))
    /\ UNCHANGED <<rvars, toMain>>

\* an HTTP exchange ends: the request's error event, or the response with
\* all of its body
NetCompletes(rich) ==
  \E i \in 1 .. Len(ops) :
    /\ ops[i].pc \in NetPcs
    /\ \E resp \in NetResponses(ops[i].pc, rich) :
         LET pc == ops[i].pc
             st == Log([o |-> ops[i], cf |-> cachedFolders], Res(pc, resp))
         IN  MainStep(i,
               CASE pc = "init" -> InitializeSessionResponse(st, resp)
                 [] pc = "put" -> UploadResponse(st, resp)
                 [] pc = "folder" -> CreateFolderResponse(st, resp)
                 [] pc = "list" -> ListAppFoldersResponse(st, resp)
                 [] pc = "get" -> DownloadFileResponse(st, resp))
    /\ UNCHANGED <<rvars, toMain>>

\* ipcRenderer.on(...): the next message from the main process arrives
IpcRendererOn ==
  /\ toRenderer # <<>>
  /\ LET m == Head(toRenderer)
     IN  IF m.chan = "google-drive-operation-result"
           THEN ArcElectronDrive_mainResultHandler(m.id, m.payload)
           ELSE ArcElectronDrive_mainErrorHandler(m.id, m.payload)
  /\ toRenderer' = Tail(toRenderer)
  /\ UNCHANGED <<lastEvent, toMain, ops, cachedFolders, sent>>

\* with the full menu of answers the requests are made one after another:
\* the next one is sent when the previous one is answered or stuck
Quiet ==
  /\ toMain = <<>>
  /\ toRenderer = <<>>
  /\ \A i \in 1 .. Len(ops) : ops[i].pc \in {"done", "uncaught"}
Turn(rich) == rich => Quiet

NextSystem(n, rich) ==
  \/ Turn(rich) /\ PageSave(n)
  \/ Turn(rich) /\ PageList(n)
  \/ Turn(rich) /\ AppSend(n, rich)
  \/ IpcMainOn
  \/ AuthorizerSettles(rich)
  \/ NetCompletes(rich)
  \/ IpcRendererOn

Spec == Init /\ [][NextSystem(MaxOps, FALSE)]_vars

SpecDrive == Init /\ [][NextSystem(MaxDriveOps, TRUE)]_vars

\* the event loops run every ready handler, and the Authorizer and every
\* HTTP exchange eventually complete
SpecFair ==
  /\ Init
  /\ [][NextSystem(MaxDriveOps, TRUE)]_vars
  /\ WF_vars(IpcMainOn)
  /\ WF_vars(AuthorizerSettles(TRUE))
  /\ WF_vars(NetCompletes(TRUE))
  /\ WF_vars(IpcRendererOn)

(***************************************************************************)
(* createParents called directly by code of the main process.              *)
(***************************************************************************)
\* the parents arguments of the calls: undefined, or a list of references
ParentLists ==
  { [defined |-> FALSE, items |-> <<>>],
    [defined |-> TRUE, items |-> <<>>],
    [defined |-> TRUE, items |-> <<PStr("My Drive"), PStr("Projects")>>],
    [defined |-> TRUE, items |-> <<PStr("MY DRIVE")>>],
    [defined |-> TRUE, items |-> <<PStr("my drive"), PObj(Undefined, "f1")>>],
    [defined |-> TRUE, items |-> <<PObj("B", "F7"), PObj(Undefined, "f1")>>],
    [defined |-> TRUE, items |-> <<PObj("Docs", Undefined), PStr("Projects")>>],
    [defined |-> TRUE, items |-> <<PObj(Undefined, Undefined), PStr("Projects")>>],
    [defined |-> TRUE, items |-> <<PObj(Undefined, Undefined)>>],
    [defined |-> TRUE, items |-> <<PNull, PStr("Projects")>>],
    [defined |-> TRUE, items |-> <<PStr(""), PObj(Undefined, "f1")>>] }

CallAuths == { TokenAuth("token0"), NoAuth }

\* drive.createParents(parents, auth)
CallCreateParents(n) ==
  /\ Len(ops) < n
  /\ \A i \in 1 .. Len(ops) : ops[i].pc \in {"done", "uncaught"}
  /\ \E parents \in ParentLists, auth \in CallAuths :
       MainStep(Len(ops) + 1,
                createParents([o |-> [NewOp("api", 0) EXCEPT !.call = "createParents",
                                                             !.auth = auth],
                               cf |-> cachedFolders],
                              parents, auth))
  /\ UNCHANGED <<rvars, toMain>>

NextResolve ==
  \/ CallCreateParents(MaxResolves)
  \/ AuthorizerSettles(FALSE)
  \/ NetCompletes(FALSE)

SpecResolve == Init /\ [][NextResolve]_vars

(***************************************************************************)
(* Claims about the correlator (SpecCorrelator).                           *)
(***************************************************************************)
\* the promise created by the dispatch that issued id
HandleOf(id) == CHOOSE i \in 1 .. Len(issued) : issued[i] = id
IssuedIds == { issued[i] : i \in 1 .. Len(issued) }
Range(f) == { f[x] : x \in DOMAIN f }

\* C1: per dispatched id the pending promise is settled at most once. The
\* first operation-result / operation-error for the id removes the pending
\* operation and resolves / rejects it with the delivered value; any later
\* delivery for that id settles nothing, changes nothing and does not throw.
C1_SettledAtMostOnce ==
  /\ thrown = 0
  /\ \A h \in DOMAIN settled : Len(settled[h]) = 1
  /\ \A id \in DOMAIN _promises : _promises[id] \notin DOMAIN settled
  /\ (lastEvent.handler # "none" /\ lastEvent.known) =>
        /\ lastEvent.id \notin DOMAIN _promises
        /\ settled[HandleOf(lastEvent.id)] =
             << [how |-> IF lastEvent.handler = "result" THEN "resolved" ELSE "rejected",
                 value |-> lastEvent.value] >>

\* C1 witness: an id was settled by a result and a later error notification
\* for the same id has been delivered
C1_Witness ==
  /\ lastEvent.handler = "error"
  /\ ~lastEvent.known
  /\ lastEvent.id \in IssuedIds
  /\ HandleOf(lastEvent.id) \in DOMAIN settled
  /\ settled[HandleOf(lastEvent.id)][1].how = "resolved"

\* C3: request ids are strictly increasing over all dispatches (save and
\* list-app-folders share the counter), none is issued twice, and no promise
\* is ever displaced from the pending table: every promise handed out is
\* either pending under its own id or settled.
C3_IdsStrictlyIncreasing ==
  /\ \A i, j \in 1 .. Len(issued) : i < j => issued[i] < issued[j]
  /\ Len(issued) = created
  /\ \A i \in 1 .. Len(issued) : issued[i] = toMain[i].id
  /\ \A a, b \in DOMAIN _promises : _promises[a] = _promises[b] => a = b
  /\ \A id \in DOMAIN _promises : id \in IssuedIds /\ _promises[id] = HandleOf(id)
  /\ Range(_promises) \cup DOMAIN settled = 1 .. created
  /\ \A id \in IssuedIds : id <= _index

\* C3 witness: a save and a list-app-folders dispatch are both pending
C3_Witness ==
  /\ \E i, j \in 1 .. Len(toMain) :
        /\ i < j
        /\ toMain[i].chan = "google-drive-data-save"
        /\ toMain[j].chan = "google-drive-list-app-folders"
        /\ {toMain[i].id, toMain[j].id} \subseteq DOMAIN _promises
  /\ Len(issued) = MaxDispatch

\* C4: a result or error notification whose id has no pending operation is
\* dropped: pending table, counter, every promise and the outgoing pipe stay
\* as they are and nothing is thrown.
C4_UnmatchedDropped ==
  [][ (lastEvent' # lastEvent /\ ~lastEvent'.known) =>
        UNCHANGED <<_promises, _index, created, issued, settled, thrown, toMain>> ]_vars

\* C4 witness: a notification for an id that was never dispatched arrived
\* while operations were pending
C4_Witness ==
  /\ lastEvent.handler = "result"
  /\ ~lastEvent.known
  /\ lastEvent.id \notin IssuedIds
  /\ DOMAIN _promises # {}
  /\ thrown = 0

(***************************************************************************)
(* Claims about the service and the whole system.                          *)
(***************************************************************************)
Saves == { i \in 1 .. Len(ops) : ops[i].kind = "save" }
LogIdx(o, e, kind) == { k \in 1 .. Len(o.log) : o.log[k].e = e /\ o.log[k].kind = kind }
ResultChan == "google-drive-operation-result"
ErrorChan == "google-drive-operation-error"

\* C2: every operation-result / operation-error message the service sends
\* carries the request id of the request whose processing produced it, and a
\* promise of the renderer is only ever settled with an outcome its own
\* request produced.
C2_NoCrossTalk ==
  /\ \A s \in sent : s.msg.id = ops[s.from].requestId
  /\ \A i, j \in 1 .. Len(ops) : ops[i].requestId = ops[j].requestId => i = j
  /\ \A h \in DOMAIN settled : \A k \in 1 .. Len(settled[h]) :
       \E s \in sent :
         /\ ops[s.from].requestId = issued[h]
         /\ s.msg.payload = settled[h][k].value
         /\ (settled[h][k].how = "resolved") <=> (s.msg.chan = ResultChan)

\* C2 witness: two requests were in flight together, the later one was
\* answered first, and both promises are settled
C2_Witness ==
  /\ Len(ops) = 2
  /\ ops[1].kind = "save" /\ ops[2].kind = "list"
  /\ \E s, t \in sent : s.from = 1 /\ t.from = 2
  /\ {1, 2} \subseteq DOMAIN settled
  /\ settled[1][1].how = "resolved" /\ settled[2][1].how = "rejected"

\* C5: the save handler runs update exactly when the request carries a
\* non-empty id (a PATCH session on that file) and create otherwise (a POST
\* session); what the operation returns is sent as operation-result with the
\* request's own id.
C5_CreateOrUpdate ==
  \A i \in Saves :
    LET o == ops[i]
    IN  /\ (o.call = "update") <=> (o.fileId \notin {Undefined, ""})
        /\ (o.call = "create") <=> (o.fileId \in {Undefined, ""})
        /\ \A k \in LogIdx(o, "req", "init") :
             IF o.fileId \in {Undefined, ""}
               THEN o.log[k].method = "POST" /\ o.log[k].url = UploadBase \o "?uploadType=resumable"
               ELSE /\ o.log[k].method = "PATCH"
                    /\ o.log[k].url = UploadBase \o "/" \o o.fileId \o "?uploadType=resumable"
        /\ \A k \in LogIdx(o, "req", "folder") : o.call = "create"
        /\ o.returned.defined =>
             o.out = << [chan |-> ResultChan, id |-> o.requestId,
                         payload |-> o.returned.value] >>
        /\ \A k \in 1 .. Len(o.out) :
             o.out[k].chan = ResultChan =>
               o.returned.defined /\ o.out[k].payload = o.returned.value

\* C5 witness: a request with a file id was served by update and its result sent
C5_Witness ==
  \E i \in Saves :
    /\ ops[i].fileId = "file1"
    /\ ops[i].call = "update"
    /\ ops[i].returned.defined
    /\ \E s \in sent : s.from = i /\ s.msg.chan = ResultChan

\* C6: for every save-file request the service sends at most one response
\* message, a result or an error, never both and never two.
C6_AtMostOneResponse ==
  \A i \in Saves :
    /\ Len(ops[i].out) <= 1
    /\ Cardinality({ s \in sent : s.from = i }) <= 1
    /\ Cardinality({ s \in sent : s.msg.id = ops[i].requestId }) <= 1
    /\ ops[i].pc # "done" => ops[i].out = <<>>

\* C6 witness: one save was answered with a result, another with an error
C6_Witness ==
  \E i, j \in Saves :
    /\ ops[i].pc = "done" /\ ops[i].out # <<>> /\ ops[i].out[1].chan = ResultChan
    /\ ops[j].pc = "done" /\ ops[j].out # <<>> /\ ops[j].out[1].chan = ErrorChan

\* C7: given that the Authorizer and every HTTP exchange complete, every
\* request the service received is eventually answered, and every pending
\* operation of the renderer is eventually removed.
C7_EveryRequestAnswered ==
  /\ \A i \in 1 .. MaxDriveOps :
       (Len(ops) >= i) ~> (Len(ops) >= i /\ ops[i].out # <<>>)
  /\ \A id \in 1 .. MaxDriveOps :
       (id \in DOMAIN _promises) ~> (id \notin DOMAIN _promises)

\* C8: within one create the folder-create exchanges of parent resolution
\* have all completed before the session-init request is issued, and the
\* session init has completed successfully before the PUT is issued; no PUT
\* is issued without a successful session init of the same operation.
C8_StepsOrdered ==
  \A i \in Saves :
    LET o == ops[i]
        before(k, e, kind) == { j \in LogIdx(o, e, kind) : j < k }
    IN  /\ \A k \in LogIdx(o, "req", "init") :
             /\ Cardinality(before(k, "req", "folder")) =
                  Cardinality(before(k, "res", "folder"))
             /\ \A j \in LogIdx(o, "req", "folder") : j < k
             /\ \A j \in before(k, "res", "folder") : o.log[j].status # 0
        /\ \A k \in LogIdx(o, "req", "put") :
             /\ k > 1
             /\ o.log[k - 1].e = "res" /\ o.log[k - 1].kind = "init"
             /\ o.log[k - 1].status \in 1 .. 399
             /\ Cardinality(before(k, "req", "init")) = 1

\* C8 witness: a create resolved two folders by name, then initialised the
\* session and issued the PUT
C8_Witness ==
  \E i \in Saves :
    /\ ops[i].call = "create"
    /\ Cardinality(LogIdx(ops[i], "res", "folder")) = 2
    /\ LogIdx(ops[i], "req", "put") # {}

\* C9: a session init answered with status >= 400 fails with the fixed
\* prefix followed by the whole response body, the save is answered with
\* operation-error, and no PUT is issued.
C9_SessionInitError ==
  \A i \in Saves :
    LET o == ops[i]
    IN  \A k \in LogIdx(o, "res", "init") :
          o.log[k].status >= 400 =>
            /\ o.pc = "done"
            /\ o.out = << [chan |-> ErrorChan, id |-> o.requestId,
                           payload |-> [message |->
                             "Could not initialize Drive upload session. Reason: "
                               \o BufferConcat(o.log[k].chunks)]] >>
            /\ (o.log[k].chunks = <<"quota ", "exceeded">> =>
                  o.out[1].payload.message =
                    "Could not initialize Drive upload session. Reason: quota exceeded")
            /\ LogIdx(o, "req", "put") = {}
            /\ k = Len(o.log)

\* C9 witness: 403 with the body "quota exceeded" delivered in two chunks
C9_Witness ==
  \E i \in Saves :
    /\ ops[i].log # <<>> /\ ops[i].out # <<>>
    /\ ops[i].log[Len(ops[i].log)].e = "res"
    /\ ops[i].log[Len(ops[i].log)].kind = "init"
    /\ ops[i].log[Len(ops[i].log)].status = 403
    /\ ops[i].log[Len(ops[i].log)].chunks = <<"quota ", "exceeded">>
    /\ ops[i].out[1].chan = ErrorChan

\* C10: after a session init answered with status < 400 the PUT goes to the
\* Location header of that response, to its first value when there are
\* several; without a Location header the session init fails and no PUT is
\* issued.
C10_SessionUrlIsLocation ==
  \A i \in Saves :
    LET o == ops[i]
    IN  \A k \in LogIdx(o, "res", "init") :
          o.log[k].status \in 1 .. 399 =>
            IF o.log[k].location.k = "none" \/ o.log[k].location.v = <<"">>
              THEN /\ o.pc = "done"
                   /\ o.out = << [chan |-> ErrorChan, id |-> o.requestId,
                                  payload |-> [message |->
                                    "Could not initialize Drive upload session."]] >>
                   /\ LogIdx(o, "req", "put") = {}
              ELSE /\ Len(o.log) > k
                   /\ o.log[k + 1].e = "req" /\ o.log[k + 1].kind = "put"
                   /\ o.log[k + 1].method = "PUT"
                   /\ o.log[k + 1].url = o.log[k].location.v[1]
                   /\ Cardinality(LogIdx(o, "req", "put")) = 1

\* C10 witness: the Location header had two values and the PUT went to the first
C10_Witness ==
  \E i \in Saves : \E k \in LogIdx(ops[i], "req", "put") :
    /\ k > 1
    /\ ops[i].log[k - 1].location.k = "array"
    /\ Len(ops[i].log[k - 1].location.v) = 2
    /\ ops[i].log[k].url = "https://upload/session1"
    /\ ops[i].log[k - 1].location.v[2] # ops[i].log[k].url

(***************************************************************************)
(* Claims about uploads, parent folders and the folder list.               *)
(***************************************************************************)
ApiCalls == { i \in 1 .. Len(ops) : ops[i].kind = "api" }
Lists == { i \in 1 .. Len(ops) : ops[i].kind = "list" }

\* C11: a content PUT answered with an HTTP status >= 400 makes the save
\* fail: the caller receives operation-error, and no operation-result whose
\* payload is the body of the error response.
C11_UploadHttpErrorFails ==
  \A i \in Saves :
    LET o == ops[i]
    IN  \A k \in LogIdx(o, "res", "put") :
          o.log[k].status >= 400 =>
            /\ ~o.returned.defined
            /\ \A m \in 1 .. Len(o.out) : o.out[m].chan = ErrorChan

\* the calls of createParents made so far, by create or directly
Resolutions == { i \in 1 .. Len(ops) : ops[i].input.defined /\ ops[i].input.items # <<>> }
RootSpellings == {"my drive", "My Drive", "MY DRIVE"}
IsEmptyObject(item) == item.k = "obj" /\ item.name \in {Undefined, ""} /\ item.id \in {Undefined, ""}
IsFalsyEntry(item) == item.k = "null" \/ (item.k = "str" /\ item.name = "")
Kept(item) == ~IsEmptyObject(item) /\ ~IsFalsyEntry(item)
NormalForm(item) ==
  IF item.k = "str"
    THEN IF item.name \in RootSpellings THEN [k |-> "obj", name |-> Undefined, id |-> "root"]
         ELSE [k |-> "obj", name |-> item.name, id |-> Undefined]
    ELSE item
ExpectedParents(items) ==
  LET kept == SelectSeq(items, Kept)
  IN  [j \in 1 .. Len(kept) |-> NormalForm(kept[j])]

\* C12: normalization maps the list entry by entry and keeps the order of
\* the kept entries: "my drive" in any letter case becomes {id: "root"}, any
\* other string s becomes {name: s}, an object with a name or an id is passed
\* through unchanged; ["My Drive", "Projects"] gives [{id: "root"},
\* {name: "Projects"}].
C12_NormalizeElementwise ==
  \A i \in Resolutions :
    LET o == ops[i]
    IN  (\A j \in 1 .. Len(o.input.items) : ~IsFalsyEntry(o.input.items[j])) =>
          /\ o.normalized.defined
          /\ o.normalized.items = ExpectedParents(o.input.items)
          /\ (o.input.items = <<PStr("My Drive"), PStr("Projects")>> =>
                o.normalized.items = << [k |-> "obj", name |-> Undefined, id |-> "root"],
                                        [k |-> "obj", name |-> "Projects", id |-> Undefined] >>)

\* C12 witness: ["My Drive", "Projects"] and ["MY DRIVE"] have been normalized
C12_Witness ==
  \E i, j \in Resolutions :
    /\ ops[i].input.items = <<PStr("My Drive"), PStr("Projects")>>
    /\ ops[i].normalized.defined /\ Len(ops[i].normalized.items) = 2
    /\ ops[j].input.items = <<PStr("MY DRIVE")>>
    /\ ops[j].normalized.defined /\ ops[j].normalized.items[1].id = "root"

\* C13: normalization skips null, undefined and empty-string entries and
\* drops objects with neither name nor id, without failing; what remains is
\* normalized as if the skipped entries were not in the list.
C13_FalsyEntriesSkipped ==
  \A i \in Resolutions :
    /\ ops[i].normalized.defined
    /\ ops[i].normalized.items = ExpectedParents(ops[i].input.items)
    /\ (ops[i].failed.defined /\ IsError(ops[i].failed.cause) =>
          ops[i].failed.cause.err # "TypeError")

AllCarryId(items) == items # <<>> /\ \A j \in 1 .. Len(items) : items[j].id \notin {Undefined, ""}
Stepped(i) == i > Len(ops) \/ ops'[i] # ops[i]

\* C14: resolving parents that all carry an id (the root sentinel counts,
\* normalized to id "root") issues no HTTP request, returns the entries
\* unchanged and in order, and leaves the folder cache as it is, however
\* often it is repeated; the call can only fail by the Authorizer's refusal.
C14_IdsResolveOffline ==
  [][\A i \in 1 .. Len(ops') :
       LET o == ops'[i]
       IN  (o.normalized.defined /\ AllCarryId(o.normalized.items)) =>
             /\ \A k \in 1 .. Len(o.log) : o.log[k].e = "auth"
             /\ o.returned.defined =>
                  o.returned.value = [parents |-> ExpectedParents(o.input.items)]
             /\ o.pc = "done" =>
                  \/ o.returned.defined /\ ~o.failed.defined
                  \/ o.failed.defined /\ ~o.returned.defined /\ o.log # <<>>
             /\ Stepped(i) => cachedFolders' = cachedFolders]_vars

\* C14 witness: the same id-bearing entries were resolved twice, after the
\* first resolution with the same outcome
C14_Witness ==
  /\ Len(ops) = 2
  /\ \A i \in {1, 2} :
       /\ ops[i].input.items = <<PStr("my drive"), PObj(Undefined, "f1")>>
       /\ ops[i].returned.defined
       /\ ops[i].returned.value.parents = <<PObj(Undefined, "root"), PObj(Undefined, "f1")>>
       /\ ops[i].log = <<>>

\* C15: createParents called with a missing or an empty list fails with an
\* error, without calling the Authorizer, without any HTTP request and
\* without changing the folder cache.
C15_EmptyParentsRejected ==
  [][\A i \in 1 .. Len(ops') :
       LET o == ops'[i]
       IN  (o.kind = "api" /\ (~o.input.defined \/ o.input.items = <<>>)) =>
             /\ o.pc = "done"
             /\ o.failed = [defined |-> TRUE,
                            cause |-> [err |-> "Error",
                                       message |-> "The parents argument not set."]]
             /\ ~o.returned.defined
             /\ o.log = <<>>
             /\ Stepped(i) => cachedFolders' = cachedFolders]_vars

\* C15 witness: with a folder in the cache, a call without a list and without
\* a token has failed
C15_Witness ==
  /\ cachedFolders.defined /\ cachedFolders.items # <<>>
  /\ \E i \in ApiCalls :
       /\ ~ops[i].input.defined
       /\ ops[i].auth = NoAuth
       /\ ops[i].failed.defined

LacksId(item) == item.id \in {Undefined, ""}
FolderBody(name) ==
  "{\"name\":\"" \o name \o "\",\"mimeType\":\"application/vnd.google-apps.folder\"}"

\* C16: within one createParents call the entries without an id are resolved
\* one after another: at most one folder-create request of the call is
\* outstanding, the requests are issued in the input order of those entries,
\* and the next is issued only after the previous one completed successfully.
C16_FoldersOneByOne ==
  \A i \in Resolutions :
    LET o == ops[i]
        reqs == LogIdx(o, "req", "folder")
        ress == LogIdx(o, "res", "folder")
        upto(S, k) == Cardinality({ j \in S : j <= k })
        named == SelectSeq(o.normalized.items, LacksId)
    IN  /\ \A k \in 1 .. Len(o.log) : upto(reqs, k) - upto(ress, k) \in {0, 1}
        /\ reqs # {} => o.normalized.defined /\ Cardinality(reqs) <= Len(named)
        /\ \A k \in reqs :
             /\ o.log[k].text = FolderBody(named[upto(reqs, k)].name)
             /\ upto(reqs, k) > 1 =>
                  \E j \in ress :
                    /\ j < k
                    /\ o.log[j].status \in 200 .. 299
                    /\ \A l \in reqs \cup ress : ~(j < l /\ l < k)
        /\ \A j \in ress :
             o.log[j].status = 0 => /\ \A k \in reqs : k < j
                                    /\ o.pc = "done" /\ ~o.returned.defined

\* C16 witness: two folders were created for one call, in input order
C16_Witness ==
  \E i \in Resolutions :
    /\ ops[i].input.items = <<PObj("Docs", Undefined), PStr("Projects")>>
    /\ Cardinality(LogIdx(ops[i], "res", "folder")) = 2
    /\ ops[i].returned.defined
    /\ Len(ops[i].returned.value.parents) = 2
    /\ ops[i].returned.value.parents[1].name = "Docs"

\* C17: every element of the list a successful createParents returns has a
\* defined, non-empty id, whatever folder-create response was taken as a
\* success; so the parents sent with the session init never contain an
\* undefined or empty id.
C17_ResolvedIdsDefined ==
  \A i \in 1 .. Len(ops) :
    LET o == ops[i]
    IN  /\ o.createdParents.defined =>
             \A j \in 1 .. Len(o.createdParents.items) :
               o.createdParents.items[j].id \notin {Undefined, ""}
        /\ \A k \in LogIdx(o, "req", "init") :
             \A j \in 1 .. Len(o.log[k].meta.parents.ids) :
               o.log[k].meta.parents.ids[j] \notin {Undefined, ""}

\* C18: when Drive answers a folder-create or a folder-list request with a
\* JSON body holding an error object, the operation fails and the failure
\* delivered to the caller has the message of that error object.
C18_FolderErrorMessage ==
  \A i \in 1 .. Len(ops) :
    LET o == ops[i]
    IN  \A k \in LogIdx(o, "res", "folder") \cup LogIdx(o, "res", "list") :
          BufferConcat(o.log[k].chunks) =
              "{\"error\":{\"code\":403,\"message\":\"quota exceeded\"}}" =>
            /\ o.pc = "done"
            /\ o.out = << [chan |-> ErrorChan, id |-> o.requestId,
                           payload |-> [message |-> "quota exceeded"]] >>

Succeeded(o) == o.out # <<>> /\ o.out[1].chan = ResultChan
ListQueries(o) == Cardinality(LogIdx(o, "req", "list"))

\* C19 as claimed: of any two list-app-folders requests of which the first
\* succeeds, at most one issues a folder-list HTTP request, and the second is
\* answered from the cache with the first one's list, without the Authorizer
\* and without the network.
C19_AtMostOneListQuery ==
  \A i, j \in Lists :
    (i < j /\ Succeeded(ops[i])) =>
      /\ ListQueries(ops[i]) + ListQueries(ops[j]) <= 1
      /\ ops[j].log = <<>>
      /\ ops[j].out # <<>> => ops[j].out = << [chan |-> ResultChan, id |-> ops[j].requestId,
                                               payload |-> ops[i].out[1].payload] >>

\* C19 amended: a list-app-folders request received after an earlier one was
\* answered successfully is answered at once from the cache, with the cache's
\* content at that moment, without the Authorizer and without the network,
\* whatever its interactive value, and leaves the cache as it is; as long as
\* no folder has been created and a single folder query has completed, all
\* successful answers carry the same list.
C19_CachedAfterFirstSuccess ==
  [][/\ (/\ Len(ops') = Len(ops) + 1
         /\ ops'[Len(ops')].kind = "list"
         /\ \E i \in Lists : Succeeded(ops[i])) =>
           LET o == ops'[Len(ops')]
           IN  /\ o.log = <<>>
               /\ o.pc = "done"
               /\ o.out = << [chan |-> ResultChan, id |-> o.requestId,
                              payload |-> [folders |-> cachedFolders.items]] >>
               /\ cachedFolders' = cachedFolders
      /\ LET done == { i \in 1 .. Len(ops') : ops'[i].kind = "list" /\ Succeeded(ops'[i]) }
             queried == { i \in 1 .. Len(ops') : LogIdx(ops'[i], "res", "list") # {} }
             making == { i \in 1 .. Len(ops') : LogIdx(ops'[i], "res", "folder") # {} }
         IN  (Cardinality(queried) <= 1 /\ making = {}) =>
               \A i, j \in done : ops'[i].out[1].payload = ops'[j].out[1].payload]_vars

\* C19 witness: the page's request (interactive false) queried Drive and
\* succeeded; the application's later request (interactive true) was answered
\* from the cache with the same list
C19_Witness ==
  /\ Len(ops) = 2
  /\ ops[1].kind = "list" /\ ops[1].interactive = "false" /\ ListQueries(ops[1]) = 1
  /\ Succeeded(ops[1])
  /\ ops[2].kind = "list" /\ ops[2].requestId < 0 /\ ops[2].log = <<>>
  /\ Succeeded(ops[2])
  /\ ops[2].out[1].payload = ops[1].out[1].payload
  /\ ops[2].out[1].payload.folders # <<>>

\* C20: every successful list-app-folders result comes from a Drive folder
\* query (made for it, or for an earlier request whose result was cached); it
\* is never just the folders that earlier saves created, with no folder query
\* ever made.
C20_ListComesFromQuery ==
  \A j \in Lists :
    Succeeded(ops[j]) =>
      \E i \in Lists : \E k \in LogIdx(ops[i], "res", "list") :
        ops[i].log[k].status \in 200 .. 299

\* ---- claims about authorization and results ----

AuthCalls(o) == { k \in 1 .. Len(o.log) : o.log[k].e = "auth" }
HttpRequests(o) == { k \in 1 .. Len(o.log) : o.log[k].e = "req" }

\* what a save or get-file operation does with the auth it was given, when a
\* request without auth leads to getAuthToken({interactive: byDefault})
AuthDelegation(byDefault) ==
  \A i \in 1 .. Len(ops) :
    LET o == ops[i]
    IN  o.kind \in {"save", "get"} =>
          /\ (o.auth.k # "none" /\ ~Falsy(o.auth.accessToken)) =>
               /\ AuthCalls(o) = {}
               /\ \A k \in HttpRequests(o) : o.log[k].token = Bearer(o.auth.accessToken)
          /\ (o.auth.k # "none" /\ Falsy(o.auth.accessToken)) =>
               /\ o.log # <<>>
               /\ o.log[1] = AuthFlowEv(o.auth)
          /\ o.auth.k = "none" =>
               /\ o.log # <<>>
               /\ o.log[1] = AuthEv("getAuthToken", byDefault)

\* C21 as claimed: with auth.accessToken the Authorizer is not invoked and
\* every HTTP request of the operation carries that token; with auth lacking
\* accessToken the consent flow is invoked with that configuration; with no
\* auth the Authorizer is asked for a token non-interactively.
C21_DefaultNonInteractive == AuthDelegation("false")

\* C21 (amended): the same, except that with no auth the Authorizer is asked
\* for a token with an interactive request, getAuthToken({interactive: true}).
C21_AuthDelegation == AuthDelegation("true")

\* C21 witness: a create given an access token issued its folder, session and
\* upload requests, each with that token, without an Authorizer call
C21_Witness ==
  \E i \in Saves :
    /\ ops[i].auth = TokenAuth("token0") /\ ops[i].pc = "done"
    /\ AuthCalls(ops[i]) = {}
    /\ LogIdx(ops[i], "req", "folder") # {}
    /\ LogIdx(ops[i], "req", "init") # {}
    /\ LogIdx(ops[i], "req", "put") # {}
    /\ \A k \in HttpRequests(ops[i]) : ops[i].log[k].token = "Bearer token0"

(***************************************************************************)
(* The DriveExport of src/lib/drive-export.js: the save handler alone,     *)
(* answering on google-drive-data-save-result / -error.                    *)
(***************************************************************************)
MaxLibOps == 2

\* a string where the code expects a token info object: reading its
\* accessToken property gives undefined
TokenString(t) == [k |-> "string", accessToken |-> Undefined, value |-> t]

Lib_createMedia(config) == _createMedia(config)

Lib_createResource(config) ==
  LET meta == IF config.hasMeta
                THEN [obj |-> "meta", name |-> config.name,
                      description |-> config.description,
                      mimeType |-> config.mimeType, parents |-> NoParents]
                ELSE NoResource
  IN  [meta EXCEPT !.description =
         IF Falsy(meta.description) /\ ~Falsy(this_fileDescription)
           THEN this_fileDescription ELSE meta.description]

\* .catch((cause) => ...) of _dataSaveHandler
Lib_catch(st, cause) ==
  [SenderSend(st, "google-drive-data-save-error",
              IF IsError(cause) THEN [message |-> cause.message] ELSE cause)
     EXCEPT !.o.pc = "done"]

\* p.then((result) => ...) of _dataSaveHandler
Lib_then(st, result) ==
  [SenderSend([st EXCEPT !.o.returned = [defined |-> TRUE, value |-> result]],
              "google-drive-data-save-result", result)
     EXCEPT !.o.pc = "done"]

Lib_initializeSession(st, fileId) == _initializeSession(st, fileId)
Lib_upload(st, url) == _upload(st, url)

\* .then((info) => ...) of create / update
Lib_authThen(st, info) ==
  IF info.k = "none"
    THEN Lib_catch(st, TypeError("Cannot read property 'accessToken' of undefined"))
    ELSE Lib_initializeSession(
           [st EXCEPT !.o.info = info, !.o.token = info.accessToken,
                      !.o.resource.mimeType =
                        IF Falsy(@) /\ ~Falsy(this_mime) THEN this_mime ELSE @],
           IF st.o.call = "update" THEN st.o.fileId ELSE Undefined)

\* auth(auth): Promise.resolve(auth.accessToken), or a call of the Authorizer
Lib_auth(st, arg) ==
  IF arg.k # "none" /\ ~Falsy(arg.accessToken)
    THEN Lib_authThen(st, TokenString(arg.accessToken))
    ELSE Wait(Log(st, IF arg.k # "none" THEN AuthFlowEv(arg)
                                        ELSE AuthEv("getAuthToken", "true")),
              "auth")

\* ipcMain event google-drive-data-save (requestId, config)
Lib_dataSaveHandler(st, requestId, config) ==
  Lib_auth([st EXCEPT !.o.auth = config.auth, !.o.fileId = config.id,
                      !.o.resource = Lib_createResource(config),
                      !.o.media = Lib_createMedia(config),
                      !.o.call = IF ~Falsy(config.id) THEN "update" ELSE "create"],
           config.auth)

\* the response listeners of _initializeSession
Lib_initializeSessionResponse(st, resp) ==
  IF resp.type = "error" THEN Lib_catch(st, Err("Error", resp.message))
  ELSE IF resp.status >= 400
    THEN Lib_catch(st, NewError(InitPrefix \o BufferConcat(resp.chunks)))
  ELSE IF resp.location.k = "none" \/ resp.location.v[1] = ""
    THEN Lib_catch(st, NewError(InitNoLocation))
  ELSE Lib_upload(st, SessionUrl(resp.location))

\* the response listeners of _upload
Lib_uploadResponse(st, resp) ==
  IF resp.type = "error" THEN Lib_catch(st, Err("Error", resp.message))
  ELSE LET p == JSONParse(BufferConcat(resp.chunks))
       IN  IF ~p.ok THEN Lib_catch(st, SyntaxError) ELSE Lib_then(st, p.value)

\* the save requests of the README: a new file and an update, with a token,
\* with an OAuth 2 configuration, with no auth
LibRequests ==
  { SaveConfig(TRUE, "file-name.json", "My test file", Undefined,
               [defined |-> FALSE, items |-> <<>>], "application/json",
               BObj("{\"property\":\"value\"}"), id, auth) :
      id \in {Undefined, "file1"},
      auth \in {TokenAuth("my token"), ConfigAuth, NoAuth} }

\* ipcRenderer.send('google-drive-data-save', requestId, config)
LibSend ==
  /\ Requests < MaxLibOps
  /\ \E config \in LibRequests :
       toMain' = IpcSend(toMain, "google-drive-data-save", 0 - (AppSent + 1), config)
  /\ UNCHANGED <<rvars, toRenderer, ops, cachedFolders, sent>>

\* ipcMain.on('google-drive-data-save', this._dataSaveHandler)
LibIpcMainOn ==
  /\ toMain # <<>>
  /\ LET msg == Head(toMain)
     IN  MainStep(Len(ops) + 1,
                  Lib_dataSaveHandler([o |-> NewOp("lib", msg.id), cf |-> cachedFolders],
                                      msg.id, msg.arg))
  /\ toMain' = Tail(toMain)
  /\ UNCHANGED rvars

\* the Authorizer settles the promise create / update waits for
LibAuthorizerSettles ==
  \E i \in 1 .. Len(ops) :
    /\ ops[i].pc = "auth"
    /\ \E r \in AuthorizerOutcomes(FALSE) :
         LET st == [o |-> ops[i], cf |-> cachedFolders]
         IN  MainStep(i, IF r.ok THEN Lib_authThen(st, r.info)
                                 ELSE Lib_catch(st, r.cause))
    /\ UNCHANGED <<rvars, toMain>>

\* an HTTP exchange ends
LibNetCompletes ==
  \E i \in 1 .. Len(ops) :
    /\ ops[i].pc \in {"init", "put"}
    /\ \E resp \in NetResponses(ops[i].pc, FALSE) :
         LET st == Log([o |-> ops[i], cf |-> cachedFolders], Res(ops[i].pc, resp))
         IN  MainStep(i, IF ops[i].pc = "init"
                           THEN Lib_initializeSessionResponse(st, resp)
                           ELSE Lib_uploadResponse(st, resp))
    /\ UNCHANGED <<rvars, toMain>>

\* ipcRenderer.on('google-drive-data-save-result' / '-error', ...): the
\* application's listeners take the message
LibIpcRendererOn ==
  /\ toRenderer # <<>>
  /\ toRenderer' = Tail(toRenderer)
  /\ UNCHANGED <<rvars, toMain, ops, cachedFolders, sent>>

NextLib ==
  \/ LibSend
  \/ LibIpcMainOn
  \/ LibAuthorizerSettles
  \/ LibNetCompletes
  \/ LibIpcRendererOn

SpecLib == Init /\ [][NextLib]_vars

LibSaves == { i \in 1 .. Len(ops) : ops[i].kind = "lib" }

\* C22: in the DriveExport of src/lib/drive-export.js a save request whose
\* auth carries accessToken makes no Authorizer call, and its session-init
\* request and its content PUT both carry exactly that token as bearer token.
C22_SuppliedTokenIsSent ==
  \A i \in LibSaves :
    LET o == ops[i]
    IN  (o.auth.k # "none" /\ ~Falsy(o.auth.accessToken)) =>
          /\ AuthCalls(o) = {}
          /\ \A k \in LogIdx(o, "req", "init") \cup LogIdx(o, "req", "put") :
               o.log[k].token = "Bearer " \o o.auth.accessToken

\* the ids Drive answered the operation's folder-create requests with
FolderIds(o) ==
  LET ress == SelectSeq(o.log, LAMBDA ev : ev.e = "res" /\ ev.kind = "folder")
  IN  [k \in 1 .. Len(ress) |-> Get(JSONParse(BufferConcat(ress[k].chunks)).value, "id")]

\* the normalized entries with the ids of the created folders filled in
RECURSIVE WithIds(_, _)
WithIds(items, ids) ==
  IF items = <<>> THEN <<>>
  ELSE IF ~LacksId(Head(items)) THEN <<Head(items)>> \o WithIds(Tail(items), ids)
  ELSE IF ids = <<>> THEN <<Head(items)>> \o WithIds(Tail(items), ids)
  ELSE <<[Head(items) EXCEPT !.id = Head(ids)]>> \o WithIds(Tail(items), Tail(ids))

\* the parsed body of the operation's upload response
UploadBody(o) ==
  LET ress == SelectSeq(o.log, LAMBDA ev : ev.e = "res" /\ ev.kind = "put")
  IN  JSONParse(BufferConcat(ress[Len(ress)].chunks)).value

Creates == { i \in Saves : ops[i].call = "create" }

\* C23: the resource a successful create with parent references returns has
\* as `parents` the resolved {name, id} objects, in input order, whatever
\* `parents` Drive's upload response had, and is that response otherwise; a
\* successful create without parent references returns the upload response
\* as it is.
C23_ReturnedParents ==
  \A i \in Creates :
    LET o == ops[i]
    IN  Succeeded(o) =>
          LET result == o.out[1].payload
              body == UploadBody(o)
          IN  IF o.input.defined /\ o.input.items # <<>>
                THEN /\ Has(result, "parents")
                     /\ result.parents = WithIds(ExpectedParents(o.input.items), FolderIds(o))
                     /\ DOMAIN result = DOMAIN body \cup {"parents"}
                     /\ \A f \in DOMAIN body \ {"parents"} : result[f] = body[f]
                ELSE result = body

\* C23 witness: a create with parents ["A", {name: "B", id: "F7"}, "C"] whose
\* upload response had its own `parents` returned the three resolved objects
C23_Witness ==
  \E i \in Creates :
    /\ Succeeded(ops[i])
    /\ ops[i].input.items = <<PStr("A"), PObj("B", "F7"), PStr("C")>>
    /\ Has(UploadBody(ops[i]), "parents")
    /\ Len(ops[i].out[1].payload.parents) = 3
    /\ ops[i].out[1].payload.parents[1].name = "A"
    /\ ops[i].out[1].payload.parents[2] = PObj("B", "F7")
    /\ ops[i].out[1].payload.parents[3].name = "C"

Updates(os) == { i \in 1 .. Len(os) : os[i].kind = "save" /\ os[i].call = "update" }

\* C24: update does not touch parents: an update issues no folder-create
\* request, no step of an update changes the folder cache, and what a
\* successful update returns is Drive's upload response, with no parent
\* objects attached.
C24_UpdateLeavesParents ==
  [][\A i \in Updates(ops') :
       /\ LogIdx(ops'[i], "req", "folder") = {}
       /\ Succeeded(ops'[i]) => ops'[i].out[1].payload = UploadBody(ops'[i])
       /\ (i > Len(ops) \/ ops'[i] # ops[i]) => cachedFolders' = cachedFolders]_vars

\* C24 witness: an update of a file whose meta names a parent folder has
\* succeeded, with its two requests only
C24_Witness ==
  \E i \in Updates(ops) :
    /\ ops[i].resource.parents.items = <<PStr("Docs")>>
    /\ Succeeded(ops[i])
    /\ Cardinality(HttpRequests(ops[i])) = 2
    /\ ~Has(ops[i].out[1].payload, "parents")

\* C25: every failure is normalized before it crosses the process boundary:
\* the payload of every operation-error message is {message: string},
\* whether the failure value inside the service was an Error object or a
\* non-error value the Authorizer or the transport rejected with.
C25_ErrorPayloadNormalized ==
  \A s \in sent :
    s.msg.chan = ErrorChan =>
      /\ DOMAIN s.msg.payload = {"message"}
      /\ s.msg.payload.message # Undefined

Gets == { i \in 1 .. Len(ops) : ops[i].kind = "get" }

\* the error object of a parsed error body: its `error` member, or the body
ErrorOf(p) == IF ~p.ok \/ IsNull(p.value) THEN JEmpty
              ELSE IF Has(p.value, "error") THEN p.value.error ELSE p.value

\* "<code>: <message>" for a JSON error with code and message, else the body
CodeAndMessageOrBody(body) ==
  LET err == ErrorOf(JSONParse(body))
  IN  IF ~Falsy(Get(err, "code")) /\ ~Falsy(Get(err, "message"))
        THEN err.code \o ": " \o err.message
        ELSE body

\* the message of a JSON error, after "<code>: " if it has a code, else the body
MessageOrBody(body) ==
  LET err == ErrorOf(JSONParse(body))
  IN  IF Falsy(Get(err, "message")) THEN body
      ELSE IF Falsy(Get(err, "code")) THEN err.message
      ELSE err.code \o ": " \o err.message

\* what getFile does with a download response; bare tells whether a message
\* without a code is an error text too
DownloadOutcome(bare) ==
  \A i \in Gets :
    LET o == ops[i]
    IN  \A k \in LogIdx(o, "res", "get") :
          LET body == BufferConcat(o.log[k].chunks)
          IN  /\ o.log[k].status >= 400 =>
                   o.out = << [chan |-> ErrorChan, id |-> o.requestId,
                               payload |-> [message |->
                                             IF bare THEN MessageOrBody(body)
                                             ELSE CodeAndMessageOrBody(body)]] >>
              /\ o.log[k].status \in 1 .. 399 =>
                   o.out = << [chan |-> ResultChan, id |-> o.requestId,
                               payload |-> [text |-> body]] >>

\* C26 as claimed: a download response with status 4xx/5xx always fails, with
\* the text "<code>: <message>" when the body is a JSON error with code and
\* message and with the raw body otherwise; a status below 400 resolves with
\* the raw body.
C26_CodeAndMessageOrRawBody == DownloadOutcome(FALSE)

\* C26 (amended): a download response with status 4xx/5xx always fails; when
\* the body is JSON whose error carries a message the text is that message,
\* preceded by "<code>: " when the error also carries a code, and the raw
\* body otherwise; a status below 400 resolves with the raw body.
C26_DownloadErrorText == DownloadOutcome(TRUE)

\* C26 witness: a download answered 403 with Drive's error JSON failed with
\* "403: quota exceeded"
C26_Witness ==
  \E i \in Gets :
    /\ \E k \in LogIdx(ops[i], "res", "get") :
         ops[i].log[k].status = 403 /\ ops[i].log[k].chunks = <<ErrorJson>>
    /\ ops[i].out # <<>>
    /\ ops[i].out[1].payload = [message |-> "403: quota exceeded"]

(***************************************************************************)
(* Direct calls of _createMedia and _createResource, as the unit tests     *)
(* make them.                                                              *)
(***************************************************************************)
MaxBuilds == 2

\* the {body, type} part of a request configuration
MediaConfigs ==
  { SaveConfig(FALSE, Undefined, Undefined, Undefined,
               [defined |-> FALSE, items |-> <<>>], type, body, Undefined, NoAuth) :
      type \in {Undefined, "", "test-type"},
      body \in {BStr("test-string"), BStr(""), BObj("{\"a\":1}"), BUndef} }

\* the {meta, type} part of a request configuration
ResourceConfigs ==
  { SaveConfig(FALSE, Undefined, Undefined, Undefined,
               [defined |-> FALSE, items |-> <<>>], type, BStr("test"), Undefined, NoAuth) :
      type \in {Undefined, "test-type"} }
  \cup
  { SaveConfig(TRUE, "test", description, mimeType,
               [defined |-> FALSE, items |-> <<>>], type, BStr("test"), Undefined, NoAuth) :
      description \in {Undefined, "", "test"},
      mimeType \in {Undefined, "", "text/plain"},
      type \in {Undefined, "test-type"} }

\* the record of one call: its argument and what it returned
\* the instances of the tests and the demo, new DriveExport(arcDefaults), and
\* of the README, new DriveExport()
Instances == { DriveExport_new(arcDefaults), DriveExport_new(JEmpty) }

Built(kind, this, config) ==
  [kind |-> kind, call |-> kind, pc |-> "done", requestId |-> 0,
   this |-> this, config |-> config,
   media |-> IF kind = "_createMedia" THEN _createMedia(config) ELSE NoMedia,
   resource |-> IF kind = "_createResource" THEN _createResourceOn(this, config)
                ELSE NoResource]

\* instance._createMedia(config)
CallCreateMedia ==
  /\ Len(ops) < MaxBuilds
  /\ \E config \in MediaConfigs : ops' = Append(ops, Built("_createMedia", DriveExport_new(arcDefaults), config))
  /\ UNCHANGED <<rvars, toMain, toRenderer, cachedFolders, sent>>

\* instance._createResource(config)
CallCreateResource ==
  /\ Len(ops) < MaxBuilds
  /\ \E this \in Instances, config \in ResourceConfigs :
       ops' = Append(ops, Built("_createResource", this, config))
  /\ UNCHANGED <<rvars, toMain, toRenderer, cachedFolders, sent>>

NextBuild == CallCreateMedia \/ CallCreateResource

SpecBuild == Init /\ [][NextBuild]_vars

MediaCalls == { i \in 1 .. Len(ops) : ops[i].kind = "_createMedia" }
ResourceCalls == { i \in 1 .. Len(ops) : ops[i].kind = "_createResource" }

\* C27: the media payload built for {body, type} has mimeType equal to type
\* when type is given and to the instance's default content type otherwise,
\* and its body is always a string: a string body as it is, every other
\* body, a missing one too, as its JSON text.
C27_MediaBodyIsString ==
  \A i \in MediaCalls :
    LET config == ops[i].config
        media == ops[i].media
    IN  /\ media.mimeType = IF config.type \in {Undefined, ""} THEN arcDefaults.fileType
                            ELSE config.type
        /\ media.body # Undefined
        /\ config.body.k = "str" => media.body = config.body.v
        /\ config.body.k = "obj" => media.body = config.body.v

\* C28: the resource built for a request without meta has the instance's
\* default description; for a request whose meta has a non-empty description
\* the caller's meta object itself is returned, its description unchanged.
C28_ResourceDescription ==
  \A i \in ResourceCalls :
    LET config == ops[i].config
        resource == ops[i].resource
    IN  /\ ~config.hasMeta => resource.description = ops[i].this.fileDescription
        /\ (config.hasMeta /\ config.description \notin {Undefined, ""}) =>
             /\ resource.obj = "meta"
             /\ resource.description = config.description
             /\ resource.name = config.name

\* C28 witness: _createResource({}) and _createResource({meta}) with meta's
\* description 'test' have both been called
C28_Witness ==
  \E i, j \in ResourceCalls :
    /\ ~ops[i].config.hasMeta
    /\ ops[i].resource.description = "Advanced REST client data export file."
    /\ ops[j].config.hasMeta /\ ops[j].config.description = "test"
    /\ ops[j].resource.description = "test"

\* C29: the resource a create with a non-empty parent list sends with its
\* session-init request has as `parents` the ids of the resolved parents, in
\* input order; neither a raw folder name nor a {name, id} object is among
\* the parents sent.
C29_ParentIdsOnTheWire ==
  \A i \in Creates :
    LET o == ops[i]
    IN  (o.input.defined /\ o.input.items # <<>>) =>
          \A k \in LogIdx(o, "req", "init") :
            LET resolved == WithIds(ExpectedParents(o.input.items), FolderIds(o))
                sentParents == o.log[k].meta.parents
            IN  /\ sentParents.items = <<>>
                /\ sentParents.state = IF resolved = <<>> THEN "absent" ELSE "ids"
                /\ sentParents.ids = [j \in 1 .. Len(resolved) |-> resolved[j].id]

\* C29 witness: for the parents ["A", {name: "B", id: "F7"}, "C"] the session
\* init carried three ids, the second of them F7
C29_Witness ==
  \E i \in Creates :
    /\ ops[i].input.items = <<PStr("A"), PObj("B", "F7"), PStr("C")>>
    /\ \E k \in LogIdx(ops[i], "req", "init") :
         /\ Len(ops[i].log[k].meta.parents.ids) = 3
         /\ ops[i].log[k].meta.parents.ids[2] = "F7"
         /\ ops[i].log[k].meta.parents.ids[1] \in {"F1", "F2"}

\* C30: the folder cache is append-only: an entry that is in the cache is
\* in it after every later step, however save and list-app-folders
\* operations interleave.
C30_CacheAppendOnly ==
  [][\A k \in 1 .. Len(cachedFolders.items) :
       /\ cachedFolders'.defined
       /\ \E j \in 1 .. Len(cachedFolders'.items) :
            cachedFolders'.items[j] = cachedFolders.items[k]]_vars

\* ---- claims about the folder cache, failures and defaults ----

\* the folder-create response of entry ev was taken as a success
FolderCreated(ev) ==
  LET p == JSONParse(BufferConcat(ev.chunks))
  IN  /\ ev.e = "res" /\ ev.kind = "folder" /\ ev.status # 0
      /\ p.ok /\ ~IsNull(p.value) /\ ~Has(p.value, "error")

\* C31: a folder created during the resolution of parents is appended to the
\* shared cache, with the name asked for and the id Drive returned, in the
\* step that processes its create response: the next folder-create request
\* of the resolution and the session init are issued only after it, and the
\* entry is in the cache for whatever runs next.
C31_CachedImmediately ==
  [][\A i \in 1 .. Len(ops) :
       LET n == Len(ops[i].log)
           new == ops'[i].log
       IN  (Len(new) > n /\ FolderCreated(new[n + 1])) =>
             /\ cachedFolders'.defined
             /\ cachedFolders'.items =
                  Append(cachedFolders.items,
                         PObj(ops[i].current.name,
                              Get(JSONParse(BufferConcat(new[n + 1].chunks)).value, "id")))
             /\ \A k \in 1 .. n : ~(new[k].e = "req" /\ new[k].kind = "init")
             /\ Cardinality(LogIdx(ops[i], "req", "folder"))
                  = Cardinality(LogIdx(ops[i], "res", "folder")) + 1]_vars

\* C31 witness: a create with parents ["A", {name: "B", id: "F7"}, "C"] has
\* created both folders, both are in the cache, and the session init followed
C31_Witness ==
  \E i \in Creates :
    /\ ops[i].input.items = <<PStr("A"), PObj("B", "F7"), PStr("C")>>
    /\ Cardinality(LogIdx(ops[i], "req", "folder")) = 2
    /\ LogIdx(ops[i], "req", "init") # {}
    /\ cachedFolders.defined /\ Len(cachedFolders.items) = 2
    /\ cachedFolders.items[1].name = "A" /\ cachedFolders.items[2].name = "C"

\* the number of cache entries with the given name
CachedAs(cf, name) == Cardinality({ k \in 1 .. Len(cf.items) : cf.items[k].name = name })

\* C32: the resolver never looks into the folder cache before creating: a
\* save that names a folder without an id issues a folder-create request for
\* it whether or not an earlier save has cached a folder of that name, so two
\* such saves issue two requests, one each, and each folder created adds one
\* more entry of that name to the cache.
C32_NoCacheLookup ==
  [][/\ \A i \in 1 .. Len(ops') :
          LET o == ops'[i]
              named == SelectSeq(ExpectedParents(o.input.items), LacksId)
              reqs == LogIdx(o, "req", "folder")
          IN  (o.kind = "save" /\ o.input.defined) =>
                /\ Cardinality(reqs) <= Len(named)
                /\ LogIdx(o, "req", "init") # {} => Cardinality(reqs) = Len(named)
                /\ \A k \in reqs :
                     o.log[k].text = FolderBody(named[Cardinality({ j \in reqs : j <= k })].name)
     /\ \A i \in 1 .. Len(ops) :
          LET n == Len(ops[i].log)
          IN  (Len(ops'[i].log) > n /\ FolderCreated(ops'[i].log[n + 1])) =>
                CachedAs(cachedFolders', ops[i].current.name)
                  = CachedAs(cachedFolders, ops[i].current.name) + 1]_vars

\* C32 witness: two saves with the parent "Projects" have each issued one
\* folder-create request and the cache holds two entries named Projects
C32_Witness ==
  \E i, j \in Creates :
    /\ i < j
    /\ ops[i].pc = "done" /\ ops[j].pc = "done"
    /\ Cardinality(LogIdx(ops[i], "req", "folder")) = 1
    /\ Cardinality(LogIdx(ops[j], "req", "folder")) = 1
    /\ CachedAs(cachedFolders, "Projects") = 2

\* the folder-create exchange of entry ev ended in a rejection: a transport
\* error, a body that is not JSON, or a body with an `error` member
FolderRejected(ev) ==
  LET p == JSONParse(BufferConcat(ev.chunks))
  IN  /\ ev.e = "res" /\ ev.kind = "folder"
      /\ \/ ev.status = 0
         \/ ~p.ok
         \/ ~IsNull(p.value) /\ Has(p.value, "error")

\* C33: when a folder creation fails during the parent resolution of a
\* create, the save fails with operation-error; the operation issues no
\* session-init request, no PUT and no request undoing the folders already
\* created, and the failure leaves those folders in the cache.
C33_NoRollback ==
  [][\A i \in 1 .. Len(ops') :
       LET o == ops'[i]
       IN  (o.kind = "save" /\ \E k \in 1 .. Len(o.log) : FolderRejected(o.log[k])) =>
             /\ o.pc = "done"
             /\ Len(o.out) = 1 /\ o.out[1].chan = ErrorChan /\ o.out[1].id = o.requestId
             /\ FolderRejected(o.log[Len(o.log)])
             /\ \A k \in HttpRequests(o) :
                  o.log[k].kind = "folder" /\ o.log[k].method = "POST"
             /\ (i <= Len(ops) /\ ops[i] # o) => cachedFolders' = cachedFolders]_vars

\* C33 witness: of the parents ["A", {name: "B", id: "F7"}, "C"] folder A was
\* created and cached, the request for C failed, and the save was answered
\* with an error while A is still in the cache
C33_Witness ==
  \E i \in Creates :
    /\ ops[i].input.items = <<PStr("A"), PObj("B", "F7"), PStr("C")>>
    /\ Cardinality(LogIdx(ops[i], "req", "folder")) = 2
    /\ FolderRejected(ops[i].log[Len(ops[i].log)])
    /\ ops[i].out # <<>> /\ ops[i].out[1].chan = ErrorChan
    /\ CachedAs(cachedFolders, "A") = 1

\* the exchange of entry ev, of the session init or the upload, failed: a
\* transport error, an HTTP error status, a session answer without Location,
\* an upload answer that is not JSON
UploadFailed(ev) ==
  /\ ev.e = "res" /\ ev.kind \in {"init", "put"}
  /\ \/ ev.status = 0
     \/ ev.status >= 400
     \/ ev.kind = "init" /\ (ev.location.k = "none" \/ ev.location.v[1] = "")
     \/ ev.kind = "put" /\ ~JSONParse(BufferConcat(ev.chunks)).ok

\* C34: nothing is retried: a create or update issues at most one
\* session-init request and at most one content PUT, and after a failed
\* exchange of either phase the operation issues no further HTTP request.
C34_NoRetry ==
  \A i \in Saves :
    LET o == ops[i]
    IN  /\ Cardinality(LogIdx(o, "req", "init")) <= 1
        /\ Cardinality(LogIdx(o, "req", "put")) <= 1
        /\ \A k \in 1 .. Len(o.log) :
             UploadFailed(o.log[k]) =>
               /\ \A j \in HttpRequests(o) : j < k
               /\ o.pc = "done"

\* C34 witness: an upload whose PUT ended with a transport error was
\* answered with an error, after one session init and one PUT
C34_Witness ==
  \E i \in Saves :
    /\ ops[i].pc = "done"
    /\ Cardinality(LogIdx(ops[i], "req", "init")) = 1
    /\ Cardinality(LogIdx(ops[i], "req", "put")) = 1
    /\ ops[i].log[Len(ops[i].log)].kind = "put"
    /\ ops[i].log[Len(ops[i].log)].status = 0
    /\ ops[i].out # <<>> /\ ops[i].out[1].chan = ErrorChan

\* C35: when the Authorizer fails or gives no usable token (no token info,
\* or token info without an access token), the save or get-file operation
\* fails with an error and issues no HTTP request to Drive.
C35_UnusableTokenFails ==
  \A i \in 1 .. Len(ops) :
    LET o == ops[i]
    IN  o.kind \in {"save", "get"} =>
          /\ \A k \in HttpRequests(o) : o.log[k].token # Bearer(Undefined)
          /\ (AuthCalls(o) # {} /\ o.info.k # "none" /\ Falsy(o.info.accessToken)) =>
               /\ o.pc = "done" /\ o.out # <<>> /\ o.out[1].chan = ErrorChan
               /\ HttpRequests(o) = {}

\* the first of the values that is set
FirstSet(values) ==
  LET set == SelectSeq(values, LAMBDA v : ~Falsy(v))
  IN  IF set = <<>> THEN Undefined ELSE Head(set)

\* C36: after request construction the resource's mimeType is always
\* populated: it is the first set value of meta.mimeType, the request's type
\* and the instance's default content type, and a mimeType given in meta is
\* not overwritten.
C36_MimeTypePopulated ==
  \A i \in ResourceCalls :
    LET config == ops[i].config
        resource == ops[i].resource
    IN  /\ ~Falsy(resource.mimeType)
        /\ resource.mimeType = FirstSet(<<config.mimeType, config.type, ops[i].this.fileType>>)
        /\ ~Falsy(config.mimeType) => resource.mimeType = config.mimeType

(***************************************************************************)
(* Direct calls of create and update on new DriveExport(arcDefaults)       *)
(* (SpecCreate).                                                           *)
(***************************************************************************)
MaxCreates == 2

\* the resources a caller hands to create / update
CreateResources ==
  { [NoResource EXCEPT !.obj = "meta", !.name = "a.json"],
    [NoResource EXCEPT !.obj = "meta", !.name = "b.json", !.mimeType = "text/plain",
                       !.parents = [state |-> "raw", ids |-> <<>>,
                                    items |-> <<PStr("Projects"), PStr("Exports")>>]] }
CreateMedia == [mimeType |-> "application/json", body |-> "{}"]

\* drive.create(resource, media, auth) and drive.update(fileId, resource,
\* media, auth), up to the first await
CallCreate(n) ==
  /\ Len(ops) < n
  /\ \A i \in 1 .. Len(ops) : ops[i].pc \in {"done", "uncaught"}
  /\ \E call \in {"create", "update"}, resource \in CreateResources, auth \in CallAuths :
       MainStep(Len(ops) + 1,
                DriveExport_auth([o |-> [NewOp("api", 0) EXCEPT
                                           !.call = call, !.auth = auth,
                                           !.fileId = IF call = "update" THEN "file1"
                                                      ELSE Undefined,
                                           !.resource = DefaultMime(resource),
                                           !.media = CreateMedia],
                                  cf |-> cachedFolders],
                                 auth, "auth"))
  /\ UNCHANGED <<rvars, toMain>>

NextCreate ==
  \/ CallCreate(MaxCreates)
  \/ AuthorizerSettles(FALSE)
  \/ NetCompletes(FALSE)

SpecCreate == Init /\ [][NextCreate]_vars

\* the direct calls of create and update
DirectSaves == { i \in 1 .. Len(ops) : ops[i].kind = "api" /\ ops[i].call \in {"create", "update"} }

\* C37: when create or update is called with a resource that has no mimeType,
\* the metadata of the session-init request carries the instance's configured
\* default content type, arcDefaults.mime; a mimeType the caller gave is kept.
C37_DefaultMimeApplied ==
  \A i \in DirectSaves : \A k \in LogIdx(ops[i], "req", "init") :
      \E r \in CreateResources :
        /\ ops[i].log[k].meta.name = r.name
        /\ ops[i].log[k].meta.mimeType =
             IF Falsy(r.mimeType) THEN arcDefaults.mime ELSE r.mimeType

(***************************************************************************)
(* The renderer's save dispatcher with parents of every form               *)
(* (SpecForward).                                                          *)
(***************************************************************************)
MaxForwards == 3

\* save events whose options.parents hold strings, name+id objects, id-only
\* objects and falsy entries; the file name tells the events apart
ParentDetails ==
  { [file |-> "p1.json", content |-> BStr("data"), contentType |-> Undefined,
     hasParents |-> TRUE,
     parents |-> <<PStr("Projects"), PObj("Docs", "F1"), PObj(Undefined, "F2")>>],
    [file |-> "p2.json", content |-> BStr("data"), contentType |-> Undefined,
     hasParents |-> TRUE,
     parents |-> <<PNull, PStr("my drive"), PObj("MY DRIVE", "F3"), PStr("")>>],
    [file |-> "p3.json", content |-> BStr("data"), contentType |-> Undefined,
     hasParents |-> TRUE, parents |-> <<PObj(Undefined, "F2")>>],
    [file |-> "p4.json", content |-> BStr("data"), contentType |-> Undefined,
     hasParents |-> TRUE, parents |-> <<PStr("B"), PNull, PStr("A")>>],
    [file |-> "p5.json", content |-> BStr("data"), contentType |-> Undefined,
     hasParents |-> FALSE, parents |-> <<>>] }

PageSaveParents(n) ==
  /\ Requests < n
  /\ \E d \in ParentDetails : ArcElectronDrive_dataSaveHandler(d)
  /\ UNCHANGED <<lastEvent, toRenderer, ops, cachedFolders, sent>>

NextForward == PageSaveParents(MaxForwards)

SpecForward == Init /\ [][NextForward]_vars

\* "if (!item) return": null, undefined and the empty string
FalsyRef(item) == item.k = "null" \/ (item.k = "str" /\ item.name = "")

\* a reference as the claim has it forwarded
ForwardedAs(item, out) ==
  IF ~Falsy(item.name) /\ ToLowerCase(item.name) = "my drive"
    THEN out.name = item.name /\ out.id = "root"
    ELSE out = item

\* C38: the save message carries every non-falsy parent reference of the
\* event, in the event's order and whatever its form (name string, name+id
\* object, id-only object); a reference named "my drive" carries id "root".
C38_AllFormsForwarded ==
  \A k \in 1 .. Len(toMain) :
    toMain[k].chan = "google-drive-data-save" =>
      \A d \in ParentDetails :
        d.file = toMain[k].arg.name =>
          LET kept == SelectSeq(d.parents, LAMBDA item : ~FalsyRef(item))
              fwd == toMain[k].arg.parents.items
          IN  /\ Len(fwd) = Len(kept)
              /\ \A j \in 1 .. Len(kept) : j <= Len(fwd) => ForwardedAs(kept[j], fwd[j])

\* the ids dispatched in a step, and the id of the notification a step delivers
DispatchedInStep == { issued'[k] : k \in (Len(issued) + 1) .. Len(issued') }
DeliveredInStep == IF lastEvent' # lastEvent THEN {lastEvent'.id} ELSE {}

\* C39: the pending table holds exactly the dispatched ids for which no result
\* or error has been delivered since: a step adds the id it dispatches and
\* removes the id whose notification it delivers, and nothing else; every id
\* in the table is at most the counter; and the step that sends a request
\* registers its pending operation, so the id of every request sent is
\* pending or already settled.
C39_PendingTableExact ==
  /\ [](/\ \A id \in DOMAIN _promises : id <= _index
        /\ \A k \in 1 .. Len(toMain) :
             /\ toMain[k].id \in IssuedIds
             /\ \/ toMain[k].id \in DOMAIN _promises
                \/ HandleOf(toMain[k].id) \in DOMAIN settled)
  /\ [][ /\ DOMAIN _promises' = (DOMAIN _promises \cup DispatchedInStep) \ DeliveredInStep
         /\ Len(toMain') > Len(toMain) =>
              /\ DispatchedInStep = {toMain'[Len(toMain')].id}
              /\ toMain'[Len(toMain')].id \in DOMAIN _promises' \ DOMAIN _promises ]_vars

\* C39 witness: of three dispatched operations one was answered by a result,
\* one by an error and one is still pending
C39_Witness ==
  /\ Len(issued) = 3
  /\ Cardinality(DOMAIN _promises) = 1
  /\ \E a, b \in IssuedIds :
       /\ HandleOf(a) \in DOMAIN settled /\ settled[HandleOf(a)][1].how = "resolved"
       /\ HandleOf(b) \in DOMAIN settled /\ settled[HandleOf(b)][1].how = "rejected"
  /\ lastEvent.handler # "none" /\ lastEvent.known

\* C40: a create operation invokes the Authorizer at most once, however many
\* parent folders it creates: parent resolution and every folder creation use
\* the token info obtained at the start of create, so every HTTP request of
\* the operation carries that token.
C40_AuthorizerOnce ==
  \A i \in Creates :
    /\ Cardinality(AuthCalls(ops[i])) <= 1
    /\ \A k \in HttpRequests(ops[i]) : ops[i].log[k].token = Bearer(ops[i].token)

====
